---- MODULE Spec2Model ----
(***************************************************************************)
(* grammy-callbacks: schema driven codec for Telegram callback data.       *)
(*                                                                         *)
(* JavaScript values are tagged records; the field that carries the        *)
(* payload has a name of its own for every kind, so that two values of     *)
(* different kinds are always comparable:                                  *)
(*   [k |-> "null"]  [k |-> "undefined"]  [k |-> "symbol"] (poison)        *)
(*   [k |-> "number", cls |-> "int" | "half" | "nan", num |-> i]           *)
(*        cls "int": the integer i; "half": i + 1/2; "nan": NaN            *)
(*   [k |-> "string", str |-> sequence of one-character strings]           *)
(*   [k |-> "boolean", bool |-> b]   [k |-> "bigint", big |-> i]           *)
(*   [k |-> "array", arr |-> sequence of values]                           *)
(*   [k |-> "object", obj |-> function from keys to values]                *)
(* A string (and so an object key, a prefix, a callback text) is a         *)
(* sequence of characters, one UTF-16 code unit each: an ASCII character   *)
(* is the one-character string, any other is written by its code point,    *)
(* "U+00E9".                                                               *)
(***************************************************************************)
EXTENDS Integers, Sequences, FiniteSets, TLC

VARIABLES
  schema,       \* the CallbackSchema the codec is compiled from
  data,         \* a value handed to the validator, the encoder and pack
  wireIn,       \* a wire value handed to the decoder
  textIn,       \* a callback text handed to unpackSafe and unpack
  pc,           \* the step reached
  checked,      \* checker(data)
  encoded,      \* encoder(data)
  decoded,      \* decoder(encoded) or decoder(wireIn)
  rechecked,    \* checker(decoded)
  codec,        \* the prefix of the codec created, or the error thrown
  packed,       \* pack(data)
  callback,     \* the argument of unpackSafe and unpack
  unpackedSafe, \* unpackSafe(callback)
  unpacked,     \* unpack(callback)
  bag,          \* the options of the callbacks bag created, or the error thrown
  usedPrefixes, \* the bag's set of used prefixes
  routes,       \* the routes installed on the bag's composer, in order
  lastError,    \* the error the last register call threw, if any
  route,        \* the route whose codec packs and unpacks
  update,       \* the callback data of the update dispatched
  events,       \* the handlers the update ran, in order
  fellThrough   \* the update reached the middleware after the bag

codecVars == <<checked, encoded, decoded, rechecked>>
textVars == <<codec, packed, callback, unpackedSafe, unpacked>>
inputVars == <<schema, data, wireIn, textIn>>

bagVars == <<bag, usedPrefixes, routes, lastError>>
dispatchVars == <<route, update, events, fellThrough>>

vars == <<inputVars, pc, codecVars, textVars, bagVars, dispatchVars>>

-----------------------------------------------------------------------------
(* Bounds of the model *)

\* numbers and bigints range over -MaxInt..MaxInt
MaxInt == 2
\* arrays drawn as inputs have at most MaxLen elements
MaxLen == 2

-----------------------------------------------------------------------------
(* JavaScript values *)

Null == [k |-> "null"]
Undefined == [k |-> "undefined"]
Num(i) == [k |-> "number", cls |-> "int", num |-> i]
Half(i) == [k |-> "number", cls |-> "half", num |-> i]
NaN == [k |-> "number", cls |-> "nan", num |-> 0]
Str(s) == [k |-> "string", str |-> s]
Bool(b) == [k |-> "boolean", bool |-> b]
Big(i) == [k |-> "bigint", big |-> i]
Arr(s) == [k |-> "array", arr |-> s]
Obj(f) == [k |-> "object", obj |-> f]

\* the typeof operator
TypeOf(x) ==
  CASE x.k = "null" -> "object"
    [] x.k = "array" -> "object"
    [] OTHER -> x.k

IsArray(x) == x.k = "array"

\* the keys "type" and "data" of a union value
kType == <<"t", "y", "p", "e">>
kData == <<"d", "a", "t", "a">>

\* the elements of a sequence
Range(s) == {s[i] : i \in DOMAIN s}

\* Array.prototype.indexOf with strict equality: 0-based index, -1 if absent
IndexOf(s, x) ==
  IF \E i \in DOMAIN s : s[i] = x
  THEN (CHOOSE i \in DOMAIN s : s[i] = x /\ \A j \in 1..(i - 1) : s[j] # x) - 1
  ELSE -1

-----------------------------------------------------------------------------
(* schema.ts: a schema item is a shorthand [short |-> kind] or a full node *)
(* [type, nullable, ...]; properties and options are sequences of          *)
(* <<key, item>> in declaration order.                                     *)

Short(t) == [short |-> t]
Prim(t, n) == [type |-> t, nullable |-> n]
ArrayOf(n, it) == [type |-> "array", nullable |-> n, items |-> it]
ObjectOf(n, ps) == [type |-> "object", nullable |-> n, properties |-> ps]
UnionOf(n, os) == [type |-> "union", nullable |-> n, options |-> os]
EnumOf(n, vs) == [type |-> "enum", nullable |-> n, enum |-> vs]

normalizeSchemaItem(item) ==
  IF "short" \in DOMAIN item
  THEN [type |-> item.short, nullable |-> FALSE]
  ELSE item

\* Object.keys of a properties / options mapping: declaration order
ObjectKeys(ps) == [i \in DOMAIN ps |-> ps[i][1]]

\* the item declared for key in a properties / options mapping
Lookup(ps, key) == ps[CHOOSE i \in DOMAIN ps : ps[i][1] = key][2]

-----------------------------------------------------------------------------
(* validator.ts *)

KeyEdge(key) == [key |-> key]
IdxEdge(i) == [idx |-> i]

Error(desc, found) == [description |-> desc, found |-> found, path |-> <<>>]
Fail(errs) == [success |-> FALSE, errors |-> errs]
Ok == [success |-> TRUE]

\* error.path := [edge, ...error.path] for every error of a child result
Prefixed(edge, errs) ==
  [i \in DOMAIN errs |-> [errs[i] EXCEPT !.path = <<edge>> \o @]]

\* a nullability check that lets null through on every node
checkNullabilityLenient(spec, payload) == <<>>

checkNullability(spec, payload) ==
  IF ~spec.nullable /\ payload = Null
  THEN <<Error(<<"Unexpected null on non-nullable field">>, payload)>>
  ELSE <<>>

checkPrimitive(spec, payload) ==
  IF checkNullability(spec, payload) # <<>>
  THEN Fail(checkNullability(spec, payload))
  ELSE IF payload # Null /\ TypeOf(payload) # spec.type
  THEN Fail(<<Error(<<"Expected ", spec.type>>, payload)>>)
  ELSE Ok

RECURSIVE getValidator(_, _)
RECURSIVE ArrayErrors(_, _, _)
RECURSIVE ObjectErrors(_, _, _)

\* results.flatMap((childRes, i) => ...) of validators.array, from index i
ArrayErrors(child, elems, i) ==
  IF i > Len(elems) THEN <<>>
  ELSE LET res == getValidator(child, elems[i])
       IN (IF res.success THEN <<>> ELSE Prefixed(IdxEdge(i - 1), res.errors))
            \o ArrayErrors(child, elems, i + 1)

\* keys.flatMap((key) => ...) of validators.object, from the i-th declared key
ObjectErrors(props, obj, i) ==
  IF i > Len(props) THEN <<>>
  ELSE LET key == props[i][1]
           res == getValidator(props[i][2], obj[key])
       IN (IF res.success THEN <<>> ELSE Prefixed(KeyEdge(key), res.errors))
            \o ObjectErrors(props, obj, i + 1)

ValidateArray(spec, payload) ==
  IF checkNullability(spec, payload) # <<>>
  THEN Fail(checkNullability(spec, payload))
  ELSE IF payload = Null THEN Ok
  ELSE IF ~IsArray(payload)
  THEN Fail(<<Error(<<"Expected array">>, payload)>>)
  ELSE LET errors == ArrayErrors(spec.items, payload.arr, 1)
       IN IF errors = <<>> THEN Ok ELSE Fail(errors)

\* an object validator that takes an absent key for null
ValidateObjectAbsentAsNull(spec, payload) ==
  IF checkNullability(spec, payload) # <<>>
  THEN Fail(checkNullability(spec, payload))
  ELSE IF payload = Null THEN Ok
  ELSE IF IsArray(payload) \/ TypeOf(payload) # "object"
  THEN Fail(<<Error(<<"Expected object">>, payload)>>)
  ELSE LET filled == [key \in Range(ObjectKeys(spec.properties)) |->
                        IF key \in DOMAIN payload.obj THEN payload.obj[key]
                        ELSE Null]
           errors == ObjectErrors(spec.properties, filled, 1)
       IN IF errors = <<>> THEN Ok ELSE Fail(errors)

ValidateObject(spec, payload) ==
  IF checkNullability(spec, payload) # <<>>
  THEN Fail(checkNullability(spec, payload))
  ELSE IF payload = Null THEN Ok
  ELSE IF IsArray(payload) \/ TypeOf(payload) # "object"
  THEN Fail(<<Error(<<"Expected object">>, payload)>>)
  ELSE IF ~(\A key \in Range(ObjectKeys(spec.properties)) :
              key \in DOMAIN payload.obj)
  THEN Fail(<<Error(<<"Some keys are missing from the object">>, payload)>>)
  ELSE LET errors == ObjectErrors(spec.properties, payload.obj, 1)
       IN IF errors = <<>> THEN Ok ELSE Fail(errors)

\* a union validator that checks the data against the first option,
\* whatever the type says
ValidateUnionFirstOption(spec, payload) ==
  IF checkNullability(spec, payload) # <<>>
  THEN Fail(checkNullability(spec, payload))
  ELSE IF payload = Null THEN Ok
  ELSE IF IsArray(payload) \/ TypeOf(payload) # "object"
  THEN Fail(<<Error(<<"Expected object">>, payload)>>)
  ELSE IF kType \notin DOMAIN payload.obj \/ kData \notin DOMAIN payload.obj
  THEN Fail(<<Error(<<"Expected type and data keys">>, payload)>>)
  ELSE getValidator(spec.options[1][2], payload.obj[kData])

ValidateUnion(spec, payload) ==
  IF checkNullability(spec, payload) # <<>>
  THEN Fail(checkNullability(spec, payload))
  ELSE IF payload = Null THEN Ok
  ELSE IF IsArray(payload) \/ TypeOf(payload) # "object"
  THEN Fail(<<Error(<<"Expected object">>, payload)>>)
  ELSE IF kType \notin DOMAIN payload.obj \/ kData \notin DOMAIN payload.obj
  THEN Fail(<<Error(<<"Expected type and data keys">>, payload)>>)
  ELSE IF IndexOf([i \in DOMAIN spec.options |-> Str(spec.options[i][1])],
                  payload.obj[kType]) = -1
  THEN Fail(<<Error(<<"Invalid union type">>, payload)>>)
  ELSE getValidator(Lookup(spec.options, payload.obj[kType].str),
                    payload.obj[kData])

ValidateEnum(spec, payload) ==
  IF checkNullability(spec, payload) # <<>>
  THEN Fail(checkNullability(spec, payload))
  ELSE IF payload = Null THEN Ok
  ELSE IF payload \notin Range(spec.enum)
  THEN Fail(<<Error(<<"Expected one of ", spec.enum>>, payload)>>)
  ELSE Ok

getValidator(item, payload) ==
  LET spec == normalizeSchemaItem(item)
  IN CASE spec.type \in {"boolean", "bigint", "number", "string"} ->
            checkPrimitive(spec, payload)
       [] spec.type = "array" -> ValidateArray(spec, payload)
       [] spec.type = "object" -> ValidateObject(spec, payload)
       [] spec.type = "union" -> ValidateUnion(spec, payload)
       [] spec.type = "enum" -> ValidateEnum(spec, payload)

\* a schema validator that returns the declared properties only
getSchemaValidatorStripping(sch, payload) ==
  LET res == getValidator(ObjectOf(FALSE, sch), payload)
  IN IF res.success
     THEN [success |-> TRUE,
           data |-> Obj([key \in Range(ObjectKeys(sch)) |-> payload.obj[key]])]
     ELSE res

getSchemaValidator(sch, payload) ==
  LET res == getValidator(ObjectOf(FALSE, sch), payload)
  IN IF res.success THEN [success |-> TRUE, data |-> payload] ELSE res

-----------------------------------------------------------------------------
(* String helpers *)

\* the characters of the model in ascending UTF-16 code unit order
AsciiTable ==
  <<"\"", "+", ",", "-", ".",
    "0", "1", "2", "3", "4", "5", "6", "7", "8", "9",
    "A", "B", "C", "D", "E", "F", "[", "\\", "]",
    "a", "b", "c", "d", "e", "f", "g", "h", "i", "j", "k", "l", "m",
    "n", "o", "p", "q", "r", "s", "t", "u", "v", "w", "x", "y", "z">>

CharCode(c) == CHOOSE i \in DOMAIN AsciiTable : AsciiTable[i] = c

\* a < b in the order of Array.prototype.sort without a comparator
\* (code unit by code unit, a proper prefix first)
RECURSIVE LexLess(_, _)
LexLess(a, b) ==
  IF b = <<>> THEN FALSE
  ELSE IF a = <<>> THEN TRUE
  ELSE IF Head(a) = Head(b) THEN LexLess(Tail(a), Tail(b))
  ELSE CharCode(Head(a)) < CharCode(Head(b))

\* keys.sort(): the keys of the sequence in ascending order
RECURSIVE SortKeys(_)
SortKeys(keys) ==
  IF keys = <<>> THEN <<>>
  ELSE LET m == CHOOSE i \in DOMAIN keys :
                  \A j \in DOMAIN keys : ~LexLess(keys[j], keys[i])
           rest == [j \in 1..(Len(keys) - 1) |->
                      IF j < m THEN keys[j] ELSE keys[j + 1]]
       IN <<keys[m]>> \o SortKeys(rest)

HexDigits == <<"0", "1", "2", "3", "4", "5", "6", "7", "8", "9",
               "a", "b", "c", "d", "e", "f">>

\* n.toString(16) of a non-negative integer
RECURSIVE HexOfNat(_)
HexOfNat(n) ==
  IF n < 16 THEN <<HexDigits[n + 1]>>
  ELSE HexOfNat(n \div 16) \o <<HexDigits[(n % 16) + 1]>>

\* BigInt.prototype.toString(16): a minus sign, then the magnitude
BigIntToString16(n) ==
  IF n < 0 THEN <<"-">> \o HexOfNat(-n) ELSE HexOfNat(n)

\* the value of a hexadecimal digit (either case), -1 for any other character
HexValue(c) ==
  IF \E i \in DOMAIN HexDigits : HexDigits[i] = c
  THEN (CHOOSE i \in DOMAIN HexDigits : HexDigits[i] = c) - 1
  ELSE CASE c = "A" -> 10 [] c = "B" -> 11 [] c = "C" -> 12
         [] c = "D" -> 13 [] c = "E" -> 14 [] c = "F" -> 15
         [] OTHER -> -1

RECURSIVE HexToNat(_, _)
HexToNat(s, acc) ==
  IF s = <<>> THEN acc
  ELSE HexToNat(Tail(s), 16 * acc + HexValue(Head(s)))

-----------------------------------------------------------------------------
(* encoder.ts.  An encoder yields a wire value or Thrown. *)

Thrown == [k |-> "throw"]

\* Number(payload) for the values a boolean encoder can be handed
ToNumber(payload) ==
  CASE payload.k = "boolean" -> Num(IF payload.bool THEN 1 ELSE 0)
    [] payload.k = "number" -> payload
    [] payload.k = "null" -> Num(0)
    [] OTHER -> NaN

\* payload[k] ?? null
PropOrNull(obj, key) ==
  IF key \in DOMAIN obj /\ obj[key] # Undefined THEN obj[key] ELSE Null

\* the result of Array.prototype.map when the callback may throw
MapResult(results) ==
  IF \E i \in DOMAIN results : results[i] = Thrown THEN Thrown
  ELSE Arr(results)

RECURSIVE getEncoder(_, _)

EncodeArray(spec, payload) ==
  IF payload = Null THEN Null
  ELSE IF ~IsArray(payload) THEN Thrown
  ELSE MapResult([i \in DOMAIN payload.arr |->
                    getEncoder(spec.items, payload.arr[i])])

\* an object encoder that keeps the declaration order of the properties
EncodeObjectUnsorted(spec, payload) ==
  LET keys == ObjectKeys(spec.properties)
  IN IF payload = Null THEN Null
     ELSE IF TypeOf(payload) # "object" \/ IsArray(payload) THEN Thrown
     ELSE MapResult([i \in DOMAIN keys |->
                       getEncoder(Lookup(spec.properties, keys[i]),
                                  PropOrNull(payload.obj, keys[i]))])

EncodeObject(spec, payload) ==
  LET keys == SortKeys(ObjectKeys(spec.properties))
  IN IF payload = Null THEN Null
     ELSE IF TypeOf(payload) # "object" \/ IsArray(payload) THEN Thrown
     ELSE MapResult([i \in DOMAIN keys |->
                       getEncoder(Lookup(spec.properties, keys[i]),
                                  PropOrNull(payload.obj, keys[i]))])

\* union: [tagIndex, childEncode(data)], tagIndex in declaration order
EncodeUnion(spec, payload) ==
  LET keys == [i \in DOMAIN spec.options |-> Str(spec.options[i][1])]
  IN IF payload = Null THEN Null
     ELSE IF TypeOf(payload) # "object" \/ IsArray(payload) THEN Thrown
     ELSE IF kType \notin DOMAIN payload.obj \/ kData \notin DOMAIN payload.obj
     THEN Thrown
     ELSE IF IndexOf(keys, payload.obj[kType]) = -1 THEN Thrown
     ELSE MapResult(<<Num(IndexOf(keys, payload.obj[kType])),
                      getEncoder(Lookup(spec.options, payload.obj[kType].str),
                                 payload.obj[kData])>>)

\* enum: 0 for null, else the 1-based position in the declared list
EncodeEnum(spec, payload) ==
  IF payload = Null THEN Num(0) ELSE Num(IndexOf(spec.enum, payload) + 1)

getEncoder(item, payload) ==
  LET spec == normalizeSchemaItem(item)
  IN CASE spec.type = "boolean" ->
            IF payload = Null THEN Num(2) ELSE ToNumber(payload)
       [] spec.type = "number" -> payload
       [] spec.type = "string" -> payload
       [] spec.type = "bigint" ->
            IF payload = Null THEN Null
            ELSE IF payload.k = "bigint" THEN Str(BigIntToString16(payload.big))
            ELSE Thrown
       [] spec.type = "array" -> EncodeArray(spec, payload)
       [] spec.type = "object" -> EncodeObject(spec, payload)
       [] spec.type = "union" -> EncodeUnion(spec, payload)
       [] spec.type = "enum" -> EncodeEnum(spec, payload)

getSchemaEncoder(sch, payload) == getEncoder(ObjectOf(FALSE, sch), payload)

-----------------------------------------------------------------------------
(* decoder.ts *)

poison == [k |-> "symbol"]

\* ToIntegerOrInfinity of a number: NaN is 0, a fraction is truncated
ToInteger(x) ==
  CASE x.cls = "int" -> x.num
    [] x.cls = "half" -> IF x.num >= 0 THEN x.num ELSE x.num + 1
    [] OTHER -> 0

\* Array.prototype.at: a negative index counts from the end
At(s, x) ==
  LET rel == ToInteger(x)
      kk == IF rel >= 0 THEN rel ELSE Len(s) + rel
  IN IF kk < 0 \/ kk >= Len(s) THEN Undefined ELSE s[kk + 1]

DecodeBoolean(payload) ==
  IF TypeOf(payload) # "number" THEN poison
  ELSE LET res == At(<<Bool(FALSE), Bool(TRUE), Null>>, payload)
       IN IF res = Undefined THEN poison ELSE res

\* BigInt(`0x${payload}`): a SyntaxError unless the text is hex digits only
DecodeBigint(payload) ==
  IF payload = Null THEN Null
  ELSE IF TypeOf(payload) # "string" THEN poison
  ELSE IF payload.str = <<>> \/ \E i \in DOMAIN payload.str :
                                   HexValue(payload.str[i]) = -1
  THEN poison
  ELSE Big(HexToNat(payload.str, 0))

RECURSIVE getDecoder(_, _)

DecodeArray(spec, payload) ==
  IF payload = Null THEN Null
  ELSE IF ~IsArray(payload) THEN poison
  ELSE Arr([i \in DOMAIN payload.arr |-> getDecoder(spec.items, payload.arr[i])])

\* an object decoder that keeps the declaration order of the properties
DecodeObjectUnsorted(spec, payload) ==
  LET keys == ObjectKeys(spec.properties)
  IN IF payload = Null THEN Null
     ELSE IF ~IsArray(payload) \/ Len(payload.arr) # Len(keys) THEN poison
     ELSE Obj([key \in Range(keys) |->
                 getDecoder(Lookup(spec.properties, key),
                            payload.arr[CHOOSE i \in DOMAIN keys : keys[i] = key])])

DecodeObject(spec, payload) ==
  LET keys == SortKeys(ObjectKeys(spec.properties))
  IN IF payload = Null THEN Null
     ELSE IF ~IsArray(payload) \/ Len(payload.arr) # Len(keys) THEN poison
     ELSE Obj([key \in Range(keys) |->
                 getDecoder(Lookup(spec.properties, key),
                            payload.arr[CHOOSE i \in DOMAIN keys : keys[i] = key])])

\* union: [tagIndex, wire] to {type, data}; the tag by declaration order
DecodeUnion(spec, payload) ==
  IF payload = Null THEN Null
  ELSE IF ~IsArray(payload) \/ Len(payload.arr) # 2 THEN poison
  ELSE LET idx == payload.arr[1]
       IN IF TypeOf(idx) # "number" \/ idx.cls # "int" THEN poison
          ELSE IF idx.num < 0 \/ idx.num >= Len(spec.options) THEN poison
          ELSE Obj(kType :> Str(spec.options[idx.num + 1][1])
                   @@ kData :> getDecoder(spec.options[idx.num + 1][2],
                                          payload.arr[2]))

\* an enum decoder that takes the wire integer as a 0-based index
DecodeEnumZeroBased(spec, payload) ==
  IF ~(TypeOf(payload) = "number" /\ payload.cls = "int") THEN poison
  ELSE LET index == payload.num
       IN IF index < 0 \/ index >= Len(spec.enum) THEN poison
          ELSE spec.enum[index + 1]

DecodeEnum(spec, payload) ==
  IF ~(TypeOf(payload) = "number" /\ payload.cls = "int") THEN poison
  ELSE IF payload = Num(0) THEN Null
  ELSE LET index == payload.num - 1
       IN IF index < 0 \/ index >= Len(spec.enum) THEN poison
          ELSE spec.enum[index + 1]

\* a decoder whose object entry takes a sequence of any length: a missing
\* position reads as undefined, a surplus one is dropped
getDecoderAnyLength(item, payload) ==
  LET spec == normalizeSchemaItem(item)
      keys == SortKeys(ObjectKeys(spec.properties))
  IN IF spec.type = "object" /\ IsArray(payload)
     THEN Obj([key \in Range(keys) |->
                 LET i == CHOOSE j \in DOMAIN keys : keys[j] = key
                 IN getDecoder(Lookup(spec.properties, key),
                               IF i <= Len(payload.arr) THEN payload.arr[i]
                               ELSE Undefined)])
     ELSE CASE spec.type = "boolean" -> DecodeBoolean(payload)
            [] spec.type = "bigint" -> DecodeBigint(payload)
            [] spec.type = "number" -> payload
            [] spec.type = "string" -> payload
            [] spec.type = "array" -> DecodeArray(spec, payload)
            [] spec.type = "object" -> DecodeObject(spec, payload)
            [] spec.type = "union" -> DecodeUnion(spec, payload)
            [] spec.type = "enum" -> DecodeEnum(spec, payload)

getDecoder(item, payload) ==
  LET spec == normalizeSchemaItem(item)
  IN CASE spec.type = "boolean" -> DecodeBoolean(payload)
       [] spec.type = "bigint" -> DecodeBigint(payload)
       [] spec.type = "number" -> payload
       [] spec.type = "string" -> payload
       [] spec.type = "array" -> DecodeArray(spec, payload)
       [] spec.type = "object" -> DecodeObject(spec, payload)
       [] spec.type = "union" -> DecodeUnion(spec, payload)
       [] spec.type = "enum" -> DecodeEnum(spec, payload)

getSchemaDecoder(sch, payload) == getDecoder(ObjectOf(FALSE, sch), payload)

-----------------------------------------------------------------------------
(* JSON.stringify and JSON.parse on the wire values.  Texts are sequences  *)
(* of characters.  The numerals are the ones of the model's numbers: an    *)
(* integer, or an integer and a half; exponents and other fractions are    *)
(* outside the model, and so are white space, objects and the escapes      *)
(* other than \" and \\.                                                   *)

Digits == <<"0", "1", "2", "3", "4", "5", "6", "7", "8", "9">>

IsDigit(c) == \E i \in DOMAIN Digits : Digits[i] = c

DigitValue(c) == (CHOOSE i \in DOMAIN Digits : Digits[i] = c) - 1

\* the decimal numeral of a non-negative integer
RECURSIVE DecOfNat(_)
DecOfNat(n) ==
  IF n < 10 THEN <<Digits[n + 1]>>
  ELSE DecOfNat(n \div 10) \o <<Digits[(n % 10) + 1]>>

\* Number.prototype.toString as JSON.stringify uses it (NaN gives null)
NumberToJSON(x) ==
  CASE x.cls = "nan" -> <<"n", "u", "l", "l">>
    [] x.cls = "int" ->
         IF x.num < 0 THEN <<"-">> \o DecOfNat(-x.num) ELSE DecOfNat(x.num)
    [] x.cls = "half" ->
         IF x.num < 0 THEN <<"-">> \o DecOfNat(-x.num - 1) \o <<".", "5">>
         ELSE DecOfNat(x.num) \o <<".", "5">>

\* a string literal: quotes and backslashes are escaped
RECURSIVE QuoteChars(_)
QuoteChars(s) ==
  IF s = <<>> THEN <<>>
  ELSE (IF Head(s) \in {"\"", "\\"} THEN <<"\\", Head(s)>> ELSE <<Head(s)>>)
         \o QuoteChars(Tail(s))

RECURSIVE JSONStringify(_)
RECURSIVE JoinJSON(_, _)

\* the elements from index i on, separated by commas
JoinJSON(elems, i) ==
  IF i > Len(elems) THEN <<>>
  ELSE (IF i > 1 THEN <<",">> ELSE <<>>)
         \o JSONStringify(elems[i]) \o JoinJSON(elems, i + 1)

\* JSON.stringify of a value; inside an array undefined and symbols give null
JSONStringify(x) ==
  CASE x.k = "number" -> NumberToJSON(x)
    [] x.k = "string" -> <<"\"">> \o QuoteChars(x.str) \o <<"\"">>
    [] x.k = "boolean" ->
         IF x.bool THEN <<"t", "r", "u", "e">> ELSE <<"f", "a", "l", "s", "e">>
    [] x.k = "array" -> <<"[">> \o JoinJSON(x.arr, 1) \o <<"]">>
    [] OTHER -> <<"n", "u", "l", "l">>

ParseFail == [ok |-> FALSE]
Parsed(v, i) == [ok |-> TRUE, val |-> v, next |-> i]

\* the text s has the word w at position i
HasWord(s, i, w) ==
  i + Len(w) - 1 <= Len(s) /\ SubSeq(s, i, i + Len(w) - 1) = w

\* the end of the run of digits that starts at position i
RECURSIVE DigitsEnd(_, _)
DigitsEnd(s, i) ==
  IF i <= Len(s) /\ IsDigit(s[i]) THEN DigitsEnd(s, i + 1) ELSE i

RECURSIVE NatOfDec(_, _)
NatOfDec(s, acc) ==
  IF s = <<>> THEN acc ELSE NatOfDec(Tail(s), 10 * acc + DigitValue(Head(s)))

\* a JSON number at position i: -? (0 | [1-9][0-9]*) (.5)?
ParseNumber(s, i) ==
  LET neg == s[i] = "-"
      from == IF neg THEN i + 1 ELSE i
      to == DigitsEnd(s, from)
      magnitude == NatOfDec(SubSeq(s, from, to - 1), 0)
      half == HasWord(s, to, <<".", "5">>) /\ DigitsEnd(s, to + 2) = to + 2
  IN IF to = from THEN ParseFail
     ELSE IF s[from] = "0" /\ to > from + 1 THEN ParseFail
     ELSE IF to <= Len(s) /\ s[to] = "." /\ ~half THEN ParseFail
     ELSE IF half
     THEN Parsed(Half(IF neg THEN -magnitude - 1 ELSE magnitude), to + 2)
     ELSE Parsed(Num(IF neg THEN -magnitude ELSE magnitude), to)

\* the rest of a string literal, the opening quote consumed
RECURSIVE ParseString(_, _, _)
ParseString(s, i, acc) ==
  IF i > Len(s) THEN ParseFail
  ELSE IF s[i] = "\"" THEN Parsed(Str(acc), i + 1)
  ELSE IF s[i] = "\\"
  THEN IF i + 1 <= Len(s) /\ s[i + 1] \in {"\"", "\\"}
       THEN ParseString(s, i + 2, Append(acc, s[i + 1]))
       ELSE ParseFail
  ELSE ParseString(s, i + 1, Append(acc, s[i]))

RECURSIVE ParseValue(_, _)
RECURSIVE ParseElements(_, _, _)

\* the elements of an array after the first one: (, value)* ]
ParseElements(s, i, acc) ==
  IF i > Len(s) THEN ParseFail
  ELSE IF s[i] = "]" THEN Parsed(Arr(acc), i + 1)
  ELSE IF s[i] = ","
  THEN LET v == ParseValue(s, i + 1)
       IN IF v.ok THEN ParseElements(s, v.next, Append(acc, v.val))
          ELSE ParseFail
  ELSE ParseFail

ParseValue(s, i) ==
  IF i > Len(s) THEN ParseFail
  ELSE CASE s[i] = "[" ->
              IF i + 1 <= Len(s) /\ s[i + 1] = "]" THEN Parsed(Arr(<<>>), i + 2)
              ELSE LET v == ParseValue(s, i + 1)
                   IN IF v.ok THEN ParseElements(s, v.next, <<v.val>>)
                      ELSE ParseFail
         [] s[i] = "\"" -> ParseString(s, i + 1, <<>>)
         [] s[i] = "-" \/ IsDigit(s[i]) -> ParseNumber(s, i)
         [] HasWord(s, i, <<"n", "u", "l", "l">>) -> Parsed(Null, i + 4)
         [] HasWord(s, i, <<"t", "r", "u", "e">>) -> Parsed(Bool(TRUE), i + 4)
         [] HasWord(s, i, <<"f", "a", "l", "s", "e">>) ->
              Parsed(Bool(FALSE), i + 5)
         [] OTHER -> ParseFail

\* JSON.parse: the value, or ParseFail where JSON.parse throws
JSONParse(s) ==
  LET v == ParseValue(s, 1)
  IN IF v.ok /\ v.next = Len(s) + 1 THEN v ELSE ParseFail

-----------------------------------------------------------------------------
(* utils.ts *)

CALLBACK_DATA_MAX_LENGTH == 64

\* String.prototype.split with a one-character separator
RECURSIVE Split(_, _, _)
Split(str, sep, cur) ==
  IF str = <<>> THEN <<cur>>
  ELSE IF Head(str) = sep THEN <<cur>> \o Split(Tail(str), sep, <<>>)
  ELSE Split(Tail(str), sep, Append(cur, Head(str)))

\* Array.prototype.join
RECURSIVE Join(_, _)
Join(parts, sep) ==
  IF parts = <<>> THEN <<>>
  ELSE IF Len(parts) = 1 THEN parts[1]
  ELSE parts[1] \o <<sep>> \o Join(Tail(parts), sep)

\* Array.prototype.slice(from) and slice(0, to), 0-based, clamped
SliceFrom(s, from) == SubSeq(s, from + 1, Len(s))
SliceTo(s, to) == SubSeq(s, 1, IF to < Len(s) THEN to ELSE Len(s))

\* a splitWithTail that puts the tail first
splitWithTailFirst(str, separator, limit) ==
  LET parts == Split(str, separator, <<>>)
      tail == Join(SliceFrom(parts, limit - 1), separator)
  IN <<tail>> \o SliceTo(parts, limit - 1)

splitWithTail(str, separator, limit) ==
  LET parts == Split(str, separator, <<>>)
      tail == Join(SliceFrom(parts, limit - 1), separator)
  IN SliceTo(parts, limit - 1) \o <<tail>>

\* the characters escapeRegExp puts a backslash before
RegExpSpecials ==
  {".", "*", "+", "?", "^", "$", "{", "}", "(", ")", "|", "[", "]", "\\"}

RECURSIVE escapeRegExp(_)
escapeRegExp(needle) ==
  IF needle = <<>> THEN <<>>
  ELSE (IF Head(needle) \in RegExpSpecials THEN <<"\\", Head(needle)>>
        ELSE <<Head(needle)>>) \o escapeRegExp(Tail(needle))

\* the three forms of MaybeNestedCallbackData
Nestings == {"string", "data", "callbackQuery"}

Nested(form, text) ==
  CASE form = "string" -> Str(text)
    [] form = "data" -> Obj(kData :> Str(text))
    [] form = "callbackQuery" ->
         Obj(<<"c", "a", "l", "l", "b", "a", "c", "k", "Q", "u", "e", "r", "y">>
               :> Obj(kData :> Str(text)))

normalizeCallbackData(x) ==
  IF TypeOf(x) = "string" THEN x.str
  ELSE IF <<"c", "a", "l", "l", "b", "a", "c", "k", "Q", "u", "e", "r", "y">>
            \in DOMAIN x.obj
  THEN x.obj[<<"c", "a", "l", "l", "b", "a", "c", "k", "Q", "u", "e", "r", "y">>]
        .obj[kData].str
  ELSE x.obj[kData].str

-----------------------------------------------------------------------------
(* new RegExp(source) and RegExp.prototype.test, for the sources the bag   *)
(* builds: characters, \-escapes, the dot, the class [^\.], ^ and $, the   *)
(* quantifiers * + ? on one atom, and alternation.  A source is compiled   *)
(* to a sequence of alternatives, each a sequence of tokens; groups and    *)
(* braces are outside the model.                                           *)

Token(t, c) == [t |-> t, c |-> c, q |-> "1"]

RegExpSyntaxError == [k |-> "throw", message |-> "Invalid regular expression"]

\* src from position i on; alts: the alternatives closed so far, cur: the
\* tokens of the current one
RECURSIVE CompileRegExp(_, _, _, _)
CompileRegExp(src, i, alts, cur) ==
  IF i > Len(src) THEN [k |-> "regexp", alts |-> Append(alts, cur)]
  ELSE LET c == src[i]
       IN CASE c = "|" -> CompileRegExp(src, i + 1, Append(alts, cur), <<>>)
            [] c = "^" -> CompileRegExp(src, i + 1, alts, Append(cur, Token("bol", c)))
            [] c = "$" -> CompileRegExp(src, i + 1, alts, Append(cur, Token("eol", c)))
            [] c = "." -> CompileRegExp(src, i + 1, alts, Append(cur, Token("any", c)))
            [] c = "\\" ->
                 IF i = Len(src) THEN RegExpSyntaxError
                 ELSE CompileRegExp(src, i + 2, alts,
                                    Append(cur, Token("char", src[i + 1])))
            [] c = "[" ->
                 IF i + 4 <= Len(src)
                      /\ SubSeq(src, i, i + 4) = <<"[", "^", "\\", ".", "]">>
                 THEN CompileRegExp(src, i + 5, alts,
                                    Append(cur, Token("notsep", c)))
                 ELSE RegExpSyntaxError
            [] c \in {"*", "+", "?"} ->
                 IF cur = <<>> \/ cur[Len(cur)].t \in {"bol", "eol"}
                 THEN RegExpSyntaxError
                 ELSE IF cur[Len(cur)].q # "1"
                 THEN IF c = "?" THEN CompileRegExp(src, i + 1, alts, cur)
                      ELSE RegExpSyntaxError
                 ELSE CompileRegExp(src, i + 1, alts,
                                    [cur EXCEPT ![Len(cur)].q = c])
            [] c \in {"(", ")"} -> RegExpSyntaxError
            [] OTHER -> CompileRegExp(src, i + 1, alts, Append(cur, Token("char", c)))

NewRegExp(src) == CompileRegExp(src, 1, <<>>, <<>>)

\* the atom of a token accepts the character
Accepts(tok, ch) ==
  CASE tok.t = "char" -> ch = tok.c
    [] tok.t = "any" -> TRUE
    [] tok.t = "notsep" -> ch # "."
    [] OTHER -> FALSE

RECURSIVE MatchHere(_, _, _, _)
RECURSIVE MatchStar(_, _, _, _)

\* zero or more characters of token ti from pos on, then the rest
MatchStar(toks, ti, text, pos) ==
  \/ MatchHere(toks, ti + 1, text, pos)
  \/ /\ pos <= Len(text)
     /\ Accepts(toks[ti], text[pos])
     /\ MatchStar(toks, ti, text, pos + 1)

\* the tokens from ti on match the text from pos on
MatchHere(toks, ti, text, pos) ==
  IF ti > Len(toks) THEN TRUE
  ELSE LET tok == toks[ti]
       IN CASE tok.t = "bol" -> pos = 1 /\ MatchHere(toks, ti + 1, text, pos)
            [] tok.t = "eol" ->
                 pos = Len(text) + 1 /\ MatchHere(toks, ti + 1, text, pos)
            [] tok.q = "1" ->
                 /\ pos <= Len(text)
                 /\ Accepts(tok, text[pos])
                 /\ MatchHere(toks, ti + 1, text, pos + 1)
            [] tok.q = "?" ->
                 \/ MatchHere(toks, ti + 1, text, pos)
                 \/ /\ pos <= Len(text)
                    /\ Accepts(tok, text[pos])
                    /\ MatchHere(toks, ti + 1, text, pos + 1)
            [] tok.q = "*" -> MatchStar(toks, ti, text, pos)
            [] tok.q = "+" ->
                 /\ pos <= Len(text)
                 /\ Accepts(tok, text[pos])
                 /\ MatchStar(toks, ti, text, pos + 1)

\* regexp.test(text): some alternative matches at some position
RegExpTest(re, text) ==
  \E a \in DOMAIN re.alts : \E pos \in 1..(Len(text) + 1) :
    MatchHere(re.alts[a], 1, text, pos)

-----------------------------------------------------------------------------
(* callback-data.ts: createCallbackData(prefix, schema) *)

sep == "."

ThrownError(message) == [k |-> "throw", message |-> message]

\* the error thrown by createCallbackData, None when the codec is created
\* a createCallbackData that accepts every prefix
createCallbackDataUnchecked(prefix) == [k |-> "none"]

createCallbackData(prefix) ==
  IF \E i \in DOMAIN prefix : prefix[i] = sep
  THEN ThrownError("Prefix may not contain .")
  ELSE IF prefix = <<>> THEN ThrownError("Prefix may not be empty")
  ELSE [k |-> "none"]

\* an unpackSafe that takes an unparseable payload for an empty one
unpackSafeLenient(sch, cb) ==
  LET serialized == splitWithTail(cb, sep, 2)[2]
      parsed == JSONParse(<<"[">> \o serialized \o <<"]">>)
      val == IF parsed.ok THEN parsed.val ELSE Arr(<<>>)
      res == getSchemaValidator(sch, getSchemaDecoder(sch, val))
  IN IF ~res.success
     THEN [success |-> FALSE, reason |-> "VALIDATION_ERROR",
           errors |-> res.errors]
     ELSE [success |-> TRUE, data |-> res.data]

unpackSafe(sch, cb) ==
  LET serialized == splitWithTail(cb, sep, 2)[2]
      parsed == JSONParse(<<"[">> \o serialized \o <<"]">>)
  IN IF ~parsed.ok THEN [success |-> FALSE, reason |-> "MALFORMED_INPUT"]
     ELSE LET res == getSchemaValidator(sch, getSchemaDecoder(sch, parsed.val))
          IN IF ~res.success
             THEN [success |-> FALSE, reason |-> "VALIDATION_ERROR",
                   errors |-> res.errors]
             ELSE [success |-> TRUE, data |-> res.data]

\* a pack that does not look at the length of the string
packUnbounded(prefix, sch, payload) ==
  LET res == getSchemaValidator(sch, payload)
  IN IF ~res.success THEN ThrownError("Data to pack doesn't conform to schema")
     ELSE LET enc == getSchemaEncoder(sch, res.data)
              json == JSONStringify(enc)
              serialized == SubSeq(json, 2, Len(json) - 1)
              text == prefix \o <<sep>> \o serialized
          IN IF enc = Thrown THEN ThrownError("encoder") ELSE Str(text)

\* pack: a string value, or the error thrown
pack(prefix, sch, payload) ==
  LET res == getSchemaValidator(sch, payload)
  IN IF ~res.success THEN ThrownError("Data to pack doesn't conform to schema")
     ELSE LET enc == getSchemaEncoder(sch, res.data)
              json == JSONStringify(enc)
              serialized == SubSeq(json, 2, Len(json) - 1)
              text == prefix \o <<sep>> \o serialized
          IN IF enc = Thrown THEN ThrownError("encoder")
             ELSE IF Len(text) > CALLBACK_DATA_MAX_LENGTH
             THEN ThrownError("Callback data exceeds maximum length")
             ELSE Str(text)

\* unpack: the data, or the CallbackUnpackError thrown
unpack(sch, cb) ==
  LET res == unpackSafe(sch, cb)
  IN IF ~res.success THEN [k |-> "throw", unpackError |-> res] ELSE res.data

-----------------------------------------------------------------------------
(* callbacks-bag.ts: createCallbacksBag(parent, options)                   *)
(* A bag is [commonPrefix, custom, errorCallsNext]: the commonPrefix       *)
(* option (Undefined when absent), whether onValidationError was given     *)
(* and, if so, whether it calls next.  A route is [kind, prefix, schema,   *)
(* callsNext]: callsNext tells whether the route's middleware calls next.  *)

\* the error thrown by createCallbacksBag, None when the bag is created
createCallbacksBag(commonPrefix) ==
  IF commonPrefix # Undefined
  THEN IF \E i \in DOMAIN commonPrefix.str : commonPrefix.str[i] = sep
       THEN ThrownError("Prefix cannot contain .")
       ELSE IF commonPrefix.str = <<>> THEN ThrownError("Prefix cannot be empty")
       ELSE [k |-> "none"]
  ELSE [k |-> "none"]

\* options.commonPrefix ? `${options.commonPrefix}${sep}` : ""
commonPrefixSep(b) ==
  IF b.commonPrefix # Undefined /\ b.commonPrefix.str # <<>>
  THEN b.commonPrefix.str \o <<sep>>
  ELSE <<>>

\* the filter of the bag's composer on the parent
ComposerRegExp(b) ==
  NewRegExp(<<"^">> \o escapeRegExp(commonPrefixSep(b))
              \o <<"[", "^", "\\", ".", "]", "+", "\\", ".", ".", "*", "$">>)

\* the filter of a route: the prefix is put into the source as it is
RouteRegExp(b, prefix) ==
  NewRegExp(<<"^">> \o escapeRegExp(commonPrefixSep(b)) \o prefix
              \o <<"\\", ".", ".", "*", "$">>)

\* the unpackSafe of a codec of the bag
bagUnpackSafe(sch, cb) ==
  unpackSafe(sch, splitWithTail(normalizeCallbackData(cb), sep, 2)[2])

\* the pack of a codec of the bag
bagPack(b, prefix, sch, payload) ==
  LET inner == pack(prefix, sch, payload)
  IN IF inner.k = "throw" THEN inner
     ELSE IF Len(commonPrefixSep(b) \o inner.str) > CALLBACK_DATA_MAX_LENGTH
     THEN ThrownError("Callback data exceeds maximum length")
     ELSE Str(commonPrefixSep(b) \o inner.str)

\* the unpack of a codec of the bag
bagUnpack(b, sch, cb) ==
  IF commonPrefixSep(b) = <<>> THEN unpack(sch, normalizeCallbackData(cb))
  ELSE unpack(sch, splitWithTail(normalizeCallbackData(cb), sep, 2)[2])

\* new Error(`Prefix ${prefix} already in use`)
PrefixInUse(prefix) ==
  [k |-> "throw", message |-> "Prefix already in use", prefix |-> prefix]

\* the adapter of a migration: it is handed the context that holds the old
\* data as matchedCallback, and returns the data for the new codec
Adapter(name, matched) ==
  IF name = "wrap" THEN Obj(kData :> matched) ELSE matched

\* what migrate does to <<usedPrefixes, routes>>, and the error it throws;
\* target is the route of the codec given as new
migrate(b, used, rts, prefix, sch, target, adapter) ==
  IF prefix \in used
  THEN [used |-> used, routes |-> rts, error |-> PrefixInUse(prefix)]
  ELSE IF createCallbackData(prefix) # [k |-> "none"]
  THEN [used |-> used \cup {prefix}, routes |-> rts,
        error |-> createCallbackData(prefix)]
  ELSE IF RouteRegExp(b, prefix).k = "throw"
  THEN [used |-> used \cup {prefix}, routes |-> rts,
        error |-> RouteRegExp(b, prefix)]
  ELSE [used |-> used \cup {prefix},
        routes |-> Append(rts, [kind |-> "migrate", prefix |-> prefix,
                                schema |-> sch, target |-> target,
                                adapter |-> adapter]),
        error |-> [k |-> "none"]]

\* a register that does not look at the used prefixes
registerUnchecked(b, used, rts, prefix, sch, callsNext) ==
  IF createCallbackData(prefix) # [k |-> "none"]
  THEN [used |-> used \cup {prefix}, routes |-> rts,
        error |-> createCallbackData(prefix)]
  ELSE IF RouteRegExp(b, prefix).k = "throw"
  THEN [used |-> used \cup {prefix}, routes |-> rts,
        error |-> RouteRegExp(b, prefix)]
  ELSE [used |-> used \cup {prefix},
        routes |-> Append(rts, [kind |-> "register", prefix |-> prefix,
                                schema |-> sch, callsNext |-> callsNext]),
        error |-> [k |-> "none"]]

\* what register does to <<usedPrefixes, routes>>, and the error it throws
register(b, used, rts, prefix, sch, callsNext) ==
  IF prefix \in used
  THEN [used |-> used, routes |-> rts, error |-> PrefixInUse(prefix)]
  ELSE IF createCallbackData(prefix) # [k |-> "none"]
  THEN [used |-> used \cup {prefix}, routes |-> rts,
        error |-> createCallbackData(prefix)]
  ELSE IF RouteRegExp(b, prefix).k = "throw"
  THEN [used |-> used \cup {prefix}, routes |-> rts,
        error |-> RouteRegExp(b, prefix)]
  ELSE [used |-> used \cup {prefix},
        routes |-> Append(rts, [kind |-> "register", prefix |-> prefix,
                                schema |-> sch, callsNext |-> callsNext]),
        error |-> [k |-> "none"]]

HandlerEvent(prefix, matched) ==
  [handler |-> prefix, matchedCallback |-> matched]
ValidationErrorEvent == [handler |-> <<>>, onValidationError |-> TRUE]

\* the routes from the i-th on, tried in order on the text of an update:
\* the events, and whether next was called after the last route
RECURSIVE RunRoutes(_, _, _, _)
RunRoutes(b, rts, i, text) ==
  IF i > Len(rts) THEN [events |-> <<>>, next |-> TRUE]
  ELSE IF ~RegExpTest(RouteRegExp(b, rts[i].prefix), text)
  THEN RunRoutes(b, rts, i + 1, text)
  ELSE LET res == bagUnpackSafe(rts[i].schema, Obj(kData :> Str(text)))
           rest == RunRoutes(b, rts, i + 1, text)
           child == IF rts[i].kind = "migrate" THEN rts[rts[i].target]
                    ELSE rts[i]
           matched == IF rts[i].kind = "migrate"
                      THEN Adapter(rts[i].adapter, res.data)
                      ELSE res.data
       IN IF res.success
          THEN IF child.callsNext
               THEN [rest EXCEPT !.events =
                       <<HandlerEvent(child.prefix, matched)>> \o @]
               ELSE [events |-> <<HandlerEvent(child.prefix, matched)>>,
                     next |-> FALSE]
          ELSE IF res.reason = "VALIDATION_ERROR"
          THEN IF b.custom /\ ~b.errorCallsNext
               THEN [events |-> <<ValidationErrorEvent>>, next |-> FALSE]
               ELSE [rest EXCEPT !.events = <<ValidationErrorEvent>> \o @]
          ELSE rest

\* an update with callback data text passes through the parent composer
Dispatched(b, rts, text) ==
  IF RegExpTest(ComposerRegExp(b), text) THEN RunRoutes(b, rts, 1, text)
  ELSE [events |-> <<>>, next |-> TRUE]

-----------------------------------------------------------------------------
(* The schemas and the inputs of the model *)

None == [k |-> "none"]

kA == <<"a">>
kB == <<"b">>
kC == <<"c">>
kN == <<"n">>
kV == <<"v">>
kR == <<"r">>
kX == <<"x">>

PrimitiveTypes == {"number", "string", "boolean", "bigint"}

\* scalar items: the shorthand, and the full node nullable or not
ScalarItems ==
  {Short(t) : t \in PrimitiveTypes}
    \cup {Prim(t, n) : t \in PrimitiveTypes, n \in BOOLEAN}

EnumXY(n) == EnumOf(n, <<Str(<<"x">>), Str(<<"y">>)>>)
UnionAB(n) == UnionOf(n, <<<<kA, Short("string")>>, <<kB, Short("number")>>>>)

\* one level of structure over the scalars
CompositeItems ==
  {ArrayOf(n, it) : n \in BOOLEAN,
                    it \in {Short("number"), Prim("boolean", TRUE),
                            Short("bigint")}}
    \cup {EnumXY(n) : n \in BOOLEAN}
    \cup {EnumOf(FALSE, <<Num(1), Str(<<"x">>), Big(1)>>)}
    \cup {UnionAB(n) : n \in BOOLEAN}
    \cup {ObjectOf(n, <<<<kB, Short("string")>>>>) : n \in BOOLEAN}

\* two levels of structure
NestedItems ==
  {ArrayOf(FALSE, ArrayOf(TRUE, Short("number"))),
   ArrayOf(FALSE, EnumXY(TRUE)),
   UnionOf(TRUE, <<<<kB, Short("number")>>,
                   <<kA, ObjectOf(FALSE, <<<<kV, Short("bigint")>>>>)>>>>),
   ObjectOf(FALSE, <<<<kB, Short("number")>>, <<kA, EnumXY(FALSE)>>>>)}

\* a schema is the properties mapping of the implicit root object
Schemas ==
  {<<<<kR, it>>>> : it \in ScalarItems \cup CompositeItems \cup NestedItems}
    \cup {<<>>,
          <<<<kV, Short("number")>>, <<kN, Prim("boolean", TRUE)>>>>,
          <<<<kA, ObjectOf(FALSE, <<<<kB, Short("string")>>>>)>>>>,
          <<<<kC, Short("boolean")>>, <<kB, Short("string")>>,
            <<kA, Short("number")>>>>,
          <<<<kX, Short("number")>>, <<kA, UnionAB(FALSE)>>>>}

Numbers == {Num(i) : i \in -MaxInt..MaxInt} \cup {NaN, Half(0), Half(-1)}
Bigints == {Big(i) : i \in -MaxInt..MaxInt} \cup {Big(26)}
\* a string too long for any callback data
LongString == [i \in 1..CALLBACK_DATA_MAX_LENGTH |-> "a"]

\* a string of 33 characters that take two bytes each in UTF-8
AccentedString == [i \in 1..33 |-> "U+00E9"]

Strings ==
  {Str(<<>>), Str(<<"a">>), Str(<<"x">>), Str(<<"b", ".", "c">>),
   Str(<<"\"", "\\">>), Str(LongString), Str(AccentedString)}

\* The inputs are drawn from pools that get smaller with the nesting level
\* lv of the position they fill: 1 is a property of a one-property root.

\* values of no particular shape
Junk(lv) ==
  CASE lv <= 1 -> {Null, Undefined, poison, Num(1), Str(<<"a">>), Bool(TRUE),
                   Big(1), Arr(<<>>), Obj(<<>>)}
    [] lv = 2 -> {Null, poison, Num(1), Str(<<"a">>)}
    [] OTHER -> {Null, Num(1)}

\* values of a scalar type
Scalars(type, lv) ==
  CASE type = "number" ->
         IF lv <= 1 THEN Numbers
         ELSE IF lv = 2 THEN {Num(1), Num(-1), NaN} ELSE {Num(1)}
    [] type = "bigint" ->
         IF lv <= 1 THEN Bigints
         ELSE IF lv = 2 THEN {Big(1), Big(-1)} ELSE {Big(1)}
    [] type = "string" ->
         IF lv <= 1 THEN Strings
         ELSE IF lv = 2 THEN {Str(<<"a">>), Str(<<"b", ".", "c">>)}
         ELSE {Str(<<"a">>)}
    [] type = "boolean" ->
         IF lv <= 2 THEN {Bool(TRUE), Bool(FALSE)} ELSE {Bool(FALSE)}

\* all sequences over S of length at most n
SeqsUpTo(S, n) == UNION {[1..m -> S] : m \in 0..n}

RECURSIVE Cand(_, _)
RECURSIVE ObjCands(_, _)

\* objects for a properties mapping: every declared key absent or present
ObjCands(ps, lv) ==
  IF ps = <<>> THEN {<<>>}
  ELSE LET rest == ObjCands(Tail(ps), lv)
       IN rest \cup {(Head(ps)[1] :> v) @@ f :
                       v \in Cand(Head(ps)[2], lv), f \in rest}

\* the values tried against an item at level lv: the ones of its shape and
\* the junk
Cand(item, lv) ==
  LET spec == normalizeSchemaItem(item)
  IN Junk(lv) \cup
     CASE spec.type \in PrimitiveTypes -> Scalars(spec.type, lv)
       [] spec.type = "array" ->
            {Arr(s) : s \in SeqsUpTo(Cand(spec.items, lv + 1), MaxLen)}
       [] spec.type = "object" ->
            LET inner == lv + Len(spec.properties)
                all == ObjCands(spec.properties, inner)
            IN {Obj(f) : f \in all}
                 \cup {Obj((<<"z">> :> Num(1)) @@ f) :
                         f \in {g \in all :
                                  DOMAIN g = Range(ObjectKeys(spec.properties))}}
       [] spec.type = "union" ->
            {Obj((kType :> Str(t)) @@ (kData :> d)) :
               t \in Range(ObjectKeys(spec.options)) \cup {<<"z">>},
               d \in UNION {Cand(spec.options[i][2], lv + 1) :
                              i \in DOMAIN spec.options}}
              \cup {Obj(kType :> Str(kA)), Obj(kData :> Num(1)),
                    Obj((kType :> Num(0)) @@ (kData :> Num(1)))}
       [] spec.type = "enum" -> Range(spec.enum) \cup {Str(<<"z">>)}

\* the values tried against a schema
SchemaCand(sch) == Cand(ObjectOf(FALSE, sch), 0)

\* wire values of no particular shape
WireAtoms(lv) ==
  CASE lv <= 1 ->
         {Num(i) : i \in -(MaxInt + 2)..(MaxInt + 2)}
           \cup {Null, NaN, Half(0), Half(1), Half(-1), Bool(TRUE), Arr(<<>>),
                 Str(<<>>), Str(<<"1">>), Str(<<"1", "A">>),
                 Str(<<"-", "1">>), Str(<<"x">>)}
    [] lv = 2 -> {Null, Num(-1), Num(0), Num(1), Num(2), Num(3), Str(<<"1">>),
                 Str(<<"x">>)}
    [] OTHER -> {Num(1), Str(<<"1">>)}

RECURSIVE WireCand(_, _)
RECURSIVE WireTuples(_, _)

\* one wire value per declared property, in the given order
WireTuples(ps, lv) ==
  IF ps = <<>> THEN {<<>>}
  ELSE {<<w>> \o t : w \in WireCand(Head(ps)[2], lv),
                     t \in WireTuples(Tail(ps), lv)}

\* the wire values tried against an item at level lv
WireCand(item, lv) ==
  LET spec == normalizeSchemaItem(item)
  IN WireAtoms(lv) \cup
     CASE spec.type \in PrimitiveTypes \cup {"enum"} -> {}
       [] spec.type = "array" ->
            {Arr(s) : s \in SeqsUpTo(WireCand(spec.items, lv + 1), MaxLen)}
       [] spec.type = "object" ->
            LET keys == SortKeys(ObjectKeys(spec.properties))
                sorted == [i \in DOMAIN keys |->
                             <<keys[i], Lookup(spec.properties, keys[i])>>]
                all == WireTuples(sorted, lv + Len(keys))
            IN {Arr(t) : t \in all}
                 \cup {Arr(SubSeq(t, 2, Len(t))) : t \in all}
                 \cup {Arr(t \o <<Num(1)>>) : t \in all}
       [] spec.type = "union" ->
            {Arr(<<Num(i), w>>) :
               i \in -1..Len(spec.options),
               w \in UNION {WireCand(spec.options[j][2], lv + 1) :
                              j \in DOMAIN spec.options}}
              \cup {Arr(<<Num(0)>>), Arr(<<Num(0), Num(1), Num(1)>>),
                    Arr(<<Str(<<"a">>), Num(1)>>)}

\* the wire values tried against a schema
SchemaWireCand(sch) == WireCand(ObjectOf(FALSE, sch), 0)

\* the callback texts tried against a schema: prefix, separator and the
\* JSON of a wire value without its brackets, and texts that are no such thing
Prefixes == {<<"p">>, <<"b", "a", "r">>, <<>>, <<"a", ".", "b">>}

SchemaTextCand(sch) ==
  {pre \o <<sep>> \o SubSeq(JSONStringify(w), 2, Len(JSONStringify(w)) - 1) :
     pre \in {<<"p">>, <<"q">>},
     w \in {x \in SchemaWireCand(sch) : IsArray(x)}}
    \cup {<<>>, <<"p">>, <<"p", ".">>, <<"p", ".", "\"", "1">>,
          <<"p", ".", "1", "]", ",", "[", "2">>, <<"p", ".", "x">>,
          <<"p", ".", "0", "1">>, <<"p", ".", "1", ",">>}

-----------------------------------------------------------------------------
(* The codec pipeline: validate, encode, decode, validate again; and the   *)
(* standalone codec: createCallbackData, pack, unpackSafe, unpack          *)

NoCodec ==
  /\ checked = None
  /\ encoded = None
  /\ decoded = None
  /\ rechecked = None

NoText ==
  /\ codec = None
  /\ packed = None
  /\ callback = None
  /\ unpackedSafe = None
  /\ unpacked = None

NoBag ==
  /\ bag = None
  /\ usedPrefixes = {}
  /\ routes = <<>>
  /\ lastError = None
  /\ route = 0
  /\ update = None
  /\ events = <<>>
  /\ fellThrough = FALSE

\* the schema and the wire values of the decoder's test of objects
kRoot == <<"r", "o", "o", "t">>
kValue == <<"v", "a", "l", "u", "e">>
kChildA == <<"c", "h", "i", "l", "d", "A">>
kChildB == <<"c", "h", "i", "l", "d", "B">>
kChildC == <<"c", "h", "i", "l", "d", "C">>

DecoderTestSchema ==
  <<<<kRoot,
      ObjectOf(TRUE,
        <<<<kChildC, ObjectOf(FALSE, <<<<kValue, Short("boolean")>>>>)>>,
          <<kChildB, ObjectOf(FALSE, <<<<kValue, Short("string")>>>>)>>,
          <<kChildA, ObjectOf(FALSE, <<<<kValue, Short("number")>>>>)>>>>)>>>>

DecoderTestWire ==
  Arr(<<Arr(<<Arr(<<Num(0)>>), Arr(<<Str(<<"t", "e", "s", "t">>)>>),
              Arr(<<Num(1)>>)>>)>>)

DecoderTestWires == {DecoderTestWire, Arr(<<Arr(<<>>)>>), Arr(<<Null>>)}

Init ==
  /\ \/ /\ schema \in Schemas
        /\ \/ data \in SchemaCand(schema) /\ wireIn = None /\ textIn = None
           \/ data = None /\ wireIn \in SchemaWireCand(schema)
                /\ textIn = None
           \/ data = None /\ wireIn = None
                /\ textIn \in {Str(t) : t \in SchemaTextCand(schema)}
     \/ /\ schema = DecoderTestSchema
        /\ data = None /\ wireIn \in DecoderTestWires /\ textIn = None
  /\ pc = "start"
  /\ NoCodec
  /\ NoText
  /\ NoBag

\* checker(data), the first step of pack
Validate ==
  /\ pc = "start"
  /\ data # None
  /\ checked' = getSchemaValidator(schema, data)
  /\ pc' = "checked"
  /\ UNCHANGED <<inputVars, encoded, decoded, rechecked, textVars, bagVars,
                 dispatchVars>>

\* encoder(res.data), only for data the checker accepted
Encode ==
  /\ pc = "checked"
  /\ checked.success
  /\ encoded' = getSchemaEncoder(schema, checked.data)
  /\ pc' = "encoded"
  /\ UNCHANGED <<inputVars, checked, decoded, rechecked, textVars, bagVars,
                 dispatchVars>>

\* decoder(encoded): of the encoder's result, or of a wire value received
Decode ==
  /\ \/ pc = "encoded" /\ encoded # Thrown
        /\ decoded' = getSchemaDecoder(schema, encoded)
     \/ pc = "start" /\ wireIn # None
        /\ decoded' = getSchemaDecoder(schema, wireIn)
  /\ pc' = "decoded"
  /\ UNCHANGED <<inputVars, checked, encoded, rechecked, textVars, bagVars,
                 dispatchVars>>

\* checker(decoded), as unpackSafe does after decoding
Revalidate ==
  /\ pc = "decoded"
  /\ rechecked' = getSchemaValidator(schema, decoded)
  /\ pc' = "done"
  /\ UNCHANGED <<inputVars, checked, encoded, decoded, textVars, bagVars,
                 dispatchVars>>

\* createCallbackData(prefix, schema)
CreateCallbackData ==
  /\ pc = "start"
  /\ data # None \/ textIn # None
  /\ \E prefix \in Prefixes :
       IF createCallbackData(prefix) = None
       THEN codec' = Str(prefix) /\ pc' = "created"
       ELSE codec' = createCallbackData(prefix) /\ pc' = "failed"
  /\ UNCHANGED <<inputVars, codecVars, packed, callback, unpackedSafe,
                 unpacked, bagVars, dispatchVars>>

\* codec.pack(data)
Pack ==
  /\ pc = "created"
  /\ data # None
  /\ packed' = pack(codec.str, schema, data)
  /\ pc' = "packed"
  /\ UNCHANGED <<inputVars, codecVars, codec, callback, unpackedSafe,
                 unpacked, bagVars, dispatchVars>>

\* codec.unpackSafe(callback): of the string packed, or of a text received
UnpackSafe ==
  /\ \/ pc = "packed" /\ TypeOf(packed) = "string"
        /\ \E form \in Nestings : callback' = Nested(form, packed.str)
     \/ pc = "created" /\ textIn # None
        /\ \E form \in Nestings : callback' = Nested(form, textIn.str)
  /\ unpackedSafe' = unpackSafe(schema, normalizeCallbackData(callback'))
  /\ pc' = "unpackedSafe"
  /\ UNCHANGED <<inputVars, codecVars, codec, packed, unpacked, bagVars,
                 dispatchVars>>

\* codec.unpack(callback) of the same callback
Unpack ==
  /\ pc = "unpackedSafe"
  /\ unpacked' = unpack(schema, normalizeCallbackData(callback))
  /\ pc' = "unpacked"
  /\ UNCHANGED <<inputVars, codecVars, codec, packed, callback, unpackedSafe,
                 bagVars, dispatchVars>>

Next ==
  \/ Validate
  \/ Encode
  \/ Decode
  \/ Revalidate
  \/ CreateCallbackData
  \/ Pack
  \/ UnpackSafe
  \/ Unpack

Spec == Init /\ [][Next]_vars

TypeOK ==
  pc \in {"start", "checked", "encoded", "decoded", "done", "created",
          "failed", "packed", "unpackedSafe", "unpacked", "bag",
          "dispatched"}

-----------------------------------------------------------------------------
(* The callbacks bag: createCallbacksBag, register, the codec of a route,  *)
(* and an update passing through the parent composer                       *)

\* a bag holds at most MaxPrefixes used prefixes; a call for a used prefix
\* is always possible
MaxPrefixes == 2

BagSchemas == {<<<<kV, Short("bigint")>>>>, <<<<kR, Prim("number", TRUE)>>>>}

CommonPrefixes ==
  {Undefined, Str(<<"f", "o", "o">>), Str(<<>>), Str(<<"f", ".", "o">>)}

BagPrefixes ==
  {<<"b", "a", "r">>, <<"b", "a">>, <<"a", ".", "b">>, <<"b", "a", "r", "?">>}

\* the payloads of the updates: valid, invalid and unparseable texts
BagPayloads ==
  {<<"\"", "1", "\"">>, <<"\"", "-", "1", "\"">>, <<"1">>, <<"1", ".", "5">>,
   <<"n", "u", "l", "l">>, <<"\"", "1">>, <<>>, <<"1", ",", "2">>,
   <<"x", ".", "1">>}

\* the old prefix that migrate is called for
MigratePrefixes == {<<"b", "a">>}

\* updates for the prefixes bar and ba with every payload, for the prefix
\* baz that is never registered, and texts that are no update of a bag
BagTextCand ==
  {cp \o seg \o <<sep>> \o payload :
     cp \in {<<>>, <<"f", "o", "o", ".">>},
     seg \in {<<"b", "a", "r">>, <<"b", "a">>},
     payload \in BagPayloads}
    \cup {cp \o <<"b", "a", "z", sep, "1">> :
            cp \in {<<>>, <<"f", "o", "o", ".">>}}
    \cup {<<>>, <<"f", "o", "o">>, <<"f", "o", "o", ".", "b", "a", "r">>,
          <<"b", "a", "r">>}

\* the data handed to the pack of a bag's codec: the objects that hold no
\* other keys than the declared ones
BagCand(sch) ==
  {d \in SchemaCand(sch) :
     d.k = "object" /\ DOMAIN d.obj \subseteq Range(ObjectKeys(sch))}

BagInit ==
  /\ schema \in BagSchemas
  /\ \/ data \in BagCand(schema) /\ textIn = None
     \/ data = None /\ textIn \in {Str(t) : t \in BagTextCand}
  /\ wireIn = None
  /\ pc = "start"
  /\ NoCodec
  /\ NoText
  /\ NoBag

\* createCallbacksBag(parent, {commonPrefix, onValidationError})
CreateCallbacksBag ==
  /\ pc = "start"
  /\ \E commonPrefix \in CommonPrefixes, custom \in BOOLEAN,
        errorCallsNext \in BOOLEAN :
       /\ ~custom => errorCallsNext
       /\ IF createCallbacksBag(commonPrefix) = None
          THEN /\ bag' = [commonPrefix |-> commonPrefix, custom |-> custom,
                          errorCallsNext |-> errorCallsNext]
               /\ pc' = "bag"
          ELSE /\ bag' = createCallbacksBag(commonPrefix)
               /\ pc' = "failed"
  /\ UNCHANGED <<inputVars, codecVars, textVars, usedPrefixes, routes,
                 lastError, dispatchVars>>

\* bag.register(prefix, schema, ...middleware)
Register ==
  /\ pc = "bag"
  /\ \E prefix \in BagPrefixes, callsNext \in BOOLEAN :
       LET res == register(bag, usedPrefixes, routes, prefix, schema, callsNext)
       IN /\ prefix \in usedPrefixes \/ Cardinality(usedPrefixes) < MaxPrefixes
          /\ usedPrefixes' = res.used
          /\ routes' = res.routes
          /\ lastError' = res.error
  /\ UNCHANGED <<inputVars, pc, codecVars, textVars, bag, dispatchVars>>

\* the adapters of the migrations
Adapters == {"wrap"}

\* bag.migrate({old: {prefix, schema}, new, adapter}), new being a codec
\* that register returned
Migrate ==
  /\ pc = "bag"
  /\ \E prefix \in MigratePrefixes, old \in BagSchemas, adapter \in Adapters,
        target \in {r \in DOMAIN routes : routes[r].kind = "register"} :
       LET res == migrate(bag, usedPrefixes, routes, prefix, old, target,
                          adapter)
       IN /\ prefix \in usedPrefixes \/ Cardinality(usedPrefixes) < MaxPrefixes
          /\ usedPrefixes' = res.used
          /\ routes' = res.routes
          /\ lastError' = res.error
  /\ UNCHANGED <<inputVars, pc, codecVars, textVars, bag, dispatchVars>>

\* the pack of the codec register returned for a route
BagPack ==
  /\ pc = "bag"
  /\ data # None
  /\ \E r \in DOMAIN routes :
       /\ routes[r].kind = "register"
       /\ route' = r
       /\ packed' = bagPack(bag, routes[r].prefix, routes[r].schema, data)
  /\ pc' = "packed"
  /\ UNCHANGED <<inputVars, codecVars, codec, callback, unpackedSafe,
                 unpacked, bagVars, update, events, fellThrough>>

\* the unpackSafe of that codec, of the string it packed
BagUnpackSafe ==
  /\ pc = "packed"
  /\ TypeOf(packed) = "string"
  /\ \E form \in Nestings : callback' = Nested(form, packed.str)
  /\ unpackedSafe' = bagUnpackSafe(routes[route].schema, callback')
  /\ pc' = "unpackedSafe"
  /\ UNCHANGED <<inputVars, codecVars, codec, packed, unpacked, bagVars,
                 dispatchVars>>

\* the unpack of that codec, of the same callback
BagUnpack ==
  /\ pc = "unpackedSafe"
  /\ unpacked' = bagUnpack(bag, routes[route].schema, callback)
  /\ pc' = "unpacked"
  /\ UNCHANGED <<inputVars, codecVars, codec, packed, callback, unpackedSafe,
                 bagVars, dispatchVars>>

\* composer.middleware()(ctx, next) for an update that carries the string
\* packed, or a text received
Dispatch ==
  /\ \/ pc = "packed" /\ TypeOf(packed) = "string" /\ update' = packed
     \/ pc = "bag" /\ textIn # None /\ update' = textIn
  /\ events' = Dispatched(bag, routes, update'.str).events
  /\ fellThrough' = Dispatched(bag, routes, update'.str).next
  /\ pc' = "dispatched"
  /\ UNCHANGED <<inputVars, codecVars, textVars, bagVars, route>>

BagNext ==
  \/ CreateCallbacksBag
  \/ Register
  \/ Migrate
  \/ BagPack
  \/ BagUnpackSafe
  \/ BagUnpack
  \/ Dispatch

BagSpec == BagInit /\ [][BagNext]_vars

-----------------------------------------------------------------------------
(* Properties *)

\* v restricted to the declared properties, nulls kept as null
RECURSIVE Canon(_, _)
Canon(item, v) ==
  LET spec == normalizeSchemaItem(item)
  IN IF v = Null THEN Null
     ELSE CASE spec.type = "array" ->
                 Arr([i \in DOMAIN v.arr |-> Canon(spec.items, v.arr[i])])
            [] spec.type = "object" ->
                 Obj([key \in Range(ObjectKeys(spec.properties)) |->
                        Canon(Lookup(spec.properties, key), v.obj[key])])
            [] spec.type = "union" ->
                 Obj(kType :> v.obj[kType]
                     @@ kData :> Canon(Lookup(spec.options, v.obj[kType].str),
                                       v.obj[kData]))
            [] OTHER -> v

\* the round trip validate, encode, decode has been made for data
RoundTripDone == data # None /\ pc \in {"decoded", "done"}

\* C1: for every schema and every value the validator accepts,
\* decode(encode(v)) is structurally equal to v canonicalized.
C1_RoundTrip ==
  RoundTripDone => decoded = Canon(ObjectOf(FALSE, schema), data)

\* a value holds a negative bigint somewhere
RECURSIVE HasNegativeBigint(_)
HasNegativeBigint(v) ==
  CASE v.k = "bigint" -> v.big < 0
    [] v.k = "array" -> \E i \in DOMAIN v.arr : HasNegativeBigint(v.arr[i])
    [] v.k = "object" -> \E key \in DOMAIN v.obj : HasNegativeBigint(v.obj[key])
    [] OTHER -> FALSE

\* the round trip of the values that hold no negative bigint
RoundTripOfNonNegative ==
  RoundTripDone /\ ~HasNegativeBigint(data)
    => decoded = Canon(ObjectOf(FALSE, schema), data)

\* the codec has packed data and unpacked the string again
PackRoundTripDone == data # None /\ pc = "unpacked" /\ bag = None

\* C2: for every data d for which pack(d) returns a string, unpack(pack(d))
\* equals d and unpackSafe(pack(d)) is {success: true, data: d}.
C2_PackRoundTrip ==
  PackRoundTripDone =>
    /\ unpacked = Canon(ObjectOf(FALSE, schema), data)
    /\ unpackedSafe =
         [success |-> TRUE, data |-> Canon(ObjectOf(FALSE, schema), data)]

RECURSIVE HasNaN(_)
HasNaN(v) ==
  CASE v.k = "number" -> v.cls = "nan"
    [] v.k = "array" -> \E i \in DOMAIN v.arr : HasNaN(v.arr[i])
    [] v.k = "object" -> \E key \in DOMAIN v.obj : HasNaN(v.obj[key])
    [] OTHER -> FALSE

\* the round trip through the text of the values that hold neither a
\* negative bigint nor NaN
PackRoundTripOfPlain ==
  PackRoundTripDone /\ ~HasNegativeBigint(data) /\ ~HasNaN(data) =>
    /\ unpacked = Canon(ObjectOf(FALSE, schema), data)
    /\ unpackedSafe =
         [success |-> TRUE, data |-> Canon(ObjectOf(FALSE, schema), data)]

\* a codec of the bag has packed data and unpacked the string again
BagRoundTripDone == data # None /\ pc = "unpacked" /\ bag # None

\* C3: for a codec returned by bag.register, in a bag with a commonPrefix
\* and in a bag without one, and for every data d for which pack(d) returns
\* a string, unpack(pack(d)) equals d and unpackSafe(pack(d)) is
\* {success: true, data: d}.
C3_BagRoundTrip ==
  BagRoundTripDone =>
    /\ unpacked = Canon(ObjectOf(FALSE, schema), data)
    /\ unpackedSafe =
         [success |-> TRUE, data |-> Canon(ObjectOf(FALSE, schema), data)]

\* the round trip in a bag that has a commonPrefix, of the values that hold
\* neither a negative bigint nor NaN
BagRoundTripWithCommonPrefix ==
  BagRoundTripDone /\ commonPrefixSep(bag) # <<>>
      /\ ~HasNegativeBigint(data) /\ ~HasNaN(data) =>
    /\ unpacked = Canon(ObjectOf(FALSE, schema), data)
    /\ unpackedSafe =
         [success |-> TRUE, data |-> Canon(ObjectOf(FALSE, schema), data)]

\* unpack alone round trips in a bag without commonPrefix as well
BagUnpackWithoutCommonPrefix ==
  BagRoundTripDone /\ commonPrefixSep(bag) = <<>>
      /\ ~HasNegativeBigint(data) /\ ~HasNaN(data) =>
    unpacked = Canon(ObjectOf(FALSE, schema), data)

StartsWith(text, head) ==
  Len(text) >= Len(head) /\ SubSeq(text, 1, Len(head)) = head

\* the text of the update after the bag's common prefix: <P>.<payload>
UpdateTail == SliceFrom(update.str, Len(commonPrefixSep(bag)))

\* the update that was dispatched has the form <commonPrefix>.<P>.<payload>
UpdateOfBag ==
  /\ pc = "dispatched"
  /\ StartsWith(update.str, commonPrefixSep(bag))
  /\ \E i \in DOMAIN UpdateTail : UpdateTail[i] = sep

UpdatePrefix == splitWithTail(UpdateTail, sep, 2)[1]
UpdatePayload == JSONParse(<<"[">> \o splitWithTail(UpdateTail, sep, 2)[2] \o <<"]">>)
UpdateChecked ==
  getSchemaValidator(schema, getSchemaDecoder(schema, UpdatePayload.val))

Registered(prefix) ==
  \E r \in DOMAIN routes :
    routes[r].kind = "register" /\ routes[r].prefix = prefix

Migrated(prefix) ==
  \E r \in DOMAIN routes :
    routes[r].kind = "migrate" /\ routes[r].prefix = prefix

\* some route has a prefix with a regular-expression metacharacter
MetaPrefix ==
  \E r \in DOMAIN routes :
    \E i \in DOMAIN routes[r].prefix : routes[r].prefix[i] \in RegExpSpecials

HandlerRuns(prefix) ==
  Cardinality({i \in DOMAIN events :
    "matchedCallback" \in DOMAIN events[i] /\ events[i].handler = prefix})

ValidationErrorRuns ==
  Cardinality({i \in DOMAIN events : "onValidationError" \in DOMAIN events[i]})

\* C4: when an update <commonPrefix>.<P>.<payload> (<P>.<payload> in a bag
\* without common prefix) passes through the parent composer and P was
\* registered, then (a) a payload that parses and validates runs P's
\* handlers exactly once with the data as ctx.matchedCallback, and not
\* onValidationError; (b) a payload that parses and fails validation runs
\* onValidationError exactly once and not P's handlers; (c) a payload that
\* does not parse, or a prefix that is not registered, runs neither.  (The
\* updates of a migrated prefix are the matter of the migration.)
C4_DispatchOutcomes ==
  UpdateOfBag /\ ~Migrated(UpdatePrefix) =>
    IF Registered(UpdatePrefix) /\ UpdatePayload.ok
    THEN IF UpdateChecked.success
         THEN /\ HandlerRuns(UpdatePrefix) = 1
              /\ HandlerEvent(UpdatePrefix, UpdateChecked.data) \in Range(events)
              /\ ValidationErrorRuns = 0
         ELSE /\ ValidationErrorRuns = 1
              /\ HandlerRuns(UpdatePrefix) = 0
    ELSE /\ ValidationErrorRuns = 0
         /\ HandlerRuns(UpdatePrefix) = 0

\* the outcomes of the dispatch in a bag that has a commonPrefix and no
\* prefix with a metacharacter
DispatchOutcomesWithCommonPrefix ==
  pc = "dispatched" /\ commonPrefixSep(bag) # <<>> /\ ~MetaPrefix => C4_DispatchOutcomes

\* a wire value has been decoded and the result validated
DecodedWire == wireIn # None /\ pc = "done"

RECURSIVE ContainsPoison(_)
ContainsPoison(v) ==
  CASE v = poison -> TRUE
    [] v.k = "array" -> \E i \in DOMAIN v.arr : ContainsPoison(v.arr[i])
    [] v.k = "object" -> \E key \in DOMAIN v.obj : ContainsPoison(v.obj[key])
    [] OTHER -> FALSE

RECURSIVE Raised(_)
Raised(v) ==
  CASE v.k = "throw" -> TRUE
    [] v.k = "array" -> \E i \in DOMAIN v.arr : Raised(v.arr[i])
    [] v.k = "object" -> \E key \in DOMAIN v.obj : Raised(v.obj[key])
    [] OTHER -> FALSE

IsInteger(w) == w.k = "number" /\ w.cls = "int"

\* the wire values of an item that can be structurally interpreted: an
\* integer of 0..2 for a boolean, null or a base-16 numeral for a bigint,
\* anything for a number or a string, null or a sequence of interpretable
\* elements for an array, null or a sequence of one interpretable element
\* per property for an object, null or [index of a tag, interpretable] for
\* a union, an integer of 0..|L| for an enum
RECURSIVE Interpretable(_, _)
Interpretable(item, w) ==
  LET spec == normalizeSchemaItem(item)
  IN CASE spec.type = "boolean" -> IsInteger(w) /\ w.num \in 0..2
       [] spec.type = "bigint" ->
            \/ w = Null
            \/ /\ w.k = "string"
               /\ w.str # <<>>
               /\ \A i \in DOMAIN w.str : w.str[i] \in Range(HexDigits)
                    \/ w.str[i] \in {"A", "B", "C", "D", "E", "F"}
       [] spec.type \in {"number", "string"} -> TRUE
       [] spec.type = "array" ->
            \/ w = Null
            \/ /\ w.k = "array"
               /\ \A i \in DOMAIN w.arr : Interpretable(spec.items, w.arr[i])
       [] spec.type = "object" ->
            LET keys == SortKeys(ObjectKeys(spec.properties))
            IN \/ w = Null
               \/ /\ w.k = "array"
                  /\ Len(w.arr) = Len(keys)
                  /\ \A i \in DOMAIN keys :
                       Interpretable(Lookup(spec.properties, keys[i]), w.arr[i])
       [] spec.type = "union" ->
            \/ w = Null
            \/ /\ w.k = "array"
               /\ Len(w.arr) = 2
               /\ IsInteger(w.arr[1])
               /\ w.arr[1].num \in 0..(Len(spec.options) - 1)
               /\ Interpretable(spec.options[w.arr[1].num + 1][2], w.arr[2])
       [] spec.type = "enum" -> IsInteger(w) /\ w.num \in 0..Len(spec.enum)

\* C5: whatever wire value decode is given, it never raises, and when any
\* part of the wire value could not be structurally interpreted the decoded
\* result contains Poison, which no schema node's validator accepts:
\* validate(decode(w)) then fails.
C5_DecodeNeverRaises ==
  DecodedWire =>
    /\ ~Raised(decoded)
    /\ ContainsPoison(decoded) => ~rechecked.success
    /\ ~Interpretable(ObjectOf(FALSE, schema), wireIn) =>
         ContainsPoison(decoded) /\ ~rechecked.success

\* decode never raises, and validation rejects what holds Poison
PoisonNeverValidates ==
  DecodedWire =>
    /\ ~Raised(decoded)
    /\ ContainsPoison(decoded) => ~rechecked.success

\* the schema {v: "number", n: {type: "boolean", nullable: true}} and the
\* value {v: 1, n: null}
ScenarioSchema == <<<<kV, Short("number")>>, <<kN, Prim("boolean", TRUE)>>>>
ScenarioValue == Obj((kV :> Num(1)) @@ (kN :> Null))

Orders(s) ==
  {[i \in DOMAIN s |-> s[p[i]]] :
     p \in {q \in [DOMAIN s -> DOMAIN s] :
              \A i, j \in DOMAIN s : q[i] = q[j] => i = j}}

RECURSIVE Reordered(_)

\* the mappings that declare, key by key, a reordering of the item ps
\* declares, in the order of ps
ReorderedChildren(ps) ==
  {f \in [DOMAIN ps -> UNION {{<<ps[i][1], it>> : it \in Reordered(ps[i][2])} :
                                i \in DOMAIN ps}] :
     \A i \in DOMAIN ps : f[i][1] = ps[i][1] /\ f[i][2] \in Reordered(ps[i][2])}

\* the items that differ from item only in the order in which objects, at
\* any level, declare their properties
Reordered(item) ==
  IF "short" \in DOMAIN item THEN {item}
  ELSE CASE item.type = "array" ->
              {[item EXCEPT !.items = it] : it \in Reordered(item.items)}
         [] item.type = "object" ->
              UNION {{[item EXCEPT !.properties = ps] : ps \in Orders(f)} :
                       f \in ReorderedChildren(item.properties)}
         [] item.type = "union" ->
              {[item EXCEPT !.options = os] :
                 os \in ReorderedChildren(item.options)}
         [] OTHER -> {item}

\* the schemas that differ from sch only in the declaration order
Reorderings(sch) == {it.properties : it \in Reordered(ObjectOf(FALSE, sch))}

RootItem == normalizeSchemaItem(schema[1][2])
RootIs(type) ==
  Len(schema) = 1 /\ schema[1][1] = kR /\ RootItem.type = type

\* the wire value [w] of a schema {r: node} has been decoded and validated
DecodedOne == DecodedWire /\ IsArray(wireIn) /\ Len(wireIn.arr) = 1

\* C8: for an enum node with declared list L, encode(L[i]) is i+1 and
\* encode(null) is 0; decode(0) is null, decode(k) is L[k-1] for
\* 1 <= k <= |L|, and every other wire value (non-integer, negative,
\* greater than |L|) decodes to Poison so that validation fails with exactly
\* one error at the enum's path.
C8_EnumCodec ==
  RootIs("enum") =>
    /\ data # None /\ encoded # None =>
         /\ data.obj[kR] = Null => encoded = Arr(<<Num(0)>>)
         /\ \A i \in DOMAIN RootItem.enum :
              data.obj[kR] = RootItem.enum[i] => encoded = Arr(<<Num(i)>>)
    /\ DecodedOne =>
         LET w == wireIn.arr[1]
         IN IF w = Num(0) THEN decoded = Obj(kR :> Null)
            ELSE IF IsInteger(w) /\ w.num \in 1..Len(RootItem.enum)
            THEN /\ decoded = Obj(kR :> RootItem.enum[w.num])
                 /\ rechecked.success
            ELSE /\ decoded = Obj(kR :> poison)
                 /\ ~rechecked.success
                 /\ Len(rechecked.errors) = 1
                 /\ rechecked.errors[1].path = <<KeyEdge(kR)>>

\* the wire value 3 of an enum of two values has decoded to Poison
C8_Witness ==
  /\ RootIs("enum")
  /\ Len(RootItem.enum) = 2
  /\ DecodedOne
  /\ wireIn.arr[1] = Num(3)
  /\ decoded = Obj(kR :> poison)

\* {type: tag, data: d}
Tagged(tag, d) == Obj((kType :> Str(tag)) @@ (kData :> d))

RECURSIVE Follow(_, _)
Follow(path, v) ==
  IF path = <<>> THEN v
  ELSE LET edge == Head(path)
       IN IF "key" \in DOMAIN edge
          THEN IF v.k = "object" /\ edge.key \in DOMAIN v.obj
               THEN Follow(Tail(path), v.obj[edge.key])
               ELSE None
          ELSE IF v.k = "array" /\ edge.idx + 1 \in DOMAIN v.arr
               THEN Follow(Tail(path), v.arr[edge.idx + 1])
               ELSE None

\* every error's path leads to the value the error found
PathsLeadToFound(res, v) ==
  ~res.success =>
    \A i \in DOMAIN res.errors :
      Follow(res.errors[i].path, v) = res.errors[i].found

NestedSchema == <<<<kA, ObjectOf(FALSE, <<<<kB, Short("string")>>>>)>>>>
NestedValue == Obj(kA :> Obj(kB :> Num(1)))

\* the scenario: exactly one error, with path ["a", "b"]
NestedScenario ==
  schema = NestedSchema /\ data = NestedValue /\ checked # None =>
    /\ ~checked.success
    /\ Len(checked.errors) = 1
    /\ checked.errors[1].path = <<KeyEdge(kA), KeyEdge(kB)>>
    /\ checked.errors[1].found = Num(1)

\* C10: every error e returned by validate(v) carries as e.path the exact
\* sequence of edges from the root to the offending value (a key for an
\* object, an index for an array, an edge for a union traversed), so that
\* following e.path through v reaches e.found; schema {a: object{b: string}}
\* with input {a: {b: 1}} gives exactly one error with path ["a", "b"].
C10_ErrorPaths ==
  /\ data # None /\ checked # None => PathsLeadToFound(checked, data)
  /\ decoded # None /\ rechecked # None => PathsLeadToFound(rechecked, decoded)
  /\ NestedScenario

RECURSIVE HasUnion(_)
HasUnion(item) ==
  LET spec == normalizeSchemaItem(item)
  IN CASE spec.type = "union" -> TRUE
       [] spec.type = "array" -> HasUnion(spec.items)
       [] spec.type = "object" ->
            \E i \in DOMAIN spec.properties : HasUnion(spec.properties[i][2])
       [] OTHER -> FALSE

\* the error paths of the schemas that hold no union
ErrorPathsWithoutUnion ==
  ~HasUnion(ObjectOf(FALSE, schema)) => C10_ErrorPaths

\* the error validators.object gives for an object that lacks a declared key
MissingKeys(found) ==
  Error(<<"Some keys are missing from the object">>, found)

\* data is an object that lacks a key the schema declares
LacksKey ==
  /\ data # None
  /\ data.k = "object"
  /\ \E key \in Range(ObjectKeys(schema)) : key \notin DOMAIN data.obj

\* a nullable property of the root holds an explicit null
ExplicitNull(key) ==
  /\ normalizeSchemaItem(Lookup(schema, key)).nullable
  /\ data.k = "object"
  /\ key \in DOMAIN data.obj
  /\ data.obj[key] = Null

\* the object at property r lacks a key that the schema declares for it
NestedLacksKey ==
  /\ RootIs("object")
  /\ data.k = "object"
  /\ kR \in DOMAIN data.obj
  /\ data.obj[kR].k = "object"
  /\ \E key \in Range(ObjectKeys(RootItem.properties)) :
       key \notin DOMAIN data.obj[kR].obj

ErrorsOf(res) == IF res.success THEN <<>> ELSE res.errors

\* C11: validating an object value that lacks a declared property key fails
\* with exactly one error for the missing key (the missing-key marker at the
\* path of the object), whether or not the missing property is nullable; an
\* explicit null for a nullable property is accepted while absence is not.
C11_MissingKey ==
  (data # None /\ checked # None) =>
    /\ LacksKey => (checked = Fail(<<MissingKeys(data)>>))
    /\ \A key \in Range(ObjectKeys(schema)) :
         ExplicitNull(key) =>
           \A i \in DOMAIN ErrorsOf(checked) :
             checked.errors[i].path # <<KeyEdge(key)>>
    /\ NestedLacksKey =>
         (checked = Fail(Prefixed(KeyEdge(kR), <<MissingKeys(data.obj[kR])>>)))

\* {v: 1} has been validated against {v: number, n: nullable boolean}
C11_Witness ==
  /\ schema = ScenarioSchema
  /\ data = Obj(kV :> Num(1))
  /\ checked = Fail(<<MissingKeys(data)>>)

\* the value a successful validation returns, and its second validation
ValidatedTwice ==
  /\ data # None /\ checked # None /\ checked.success =>
       /\ checked.data = data
       /\ getSchemaValidator(schema, checked.data) = checked
  /\ rechecked # None /\ rechecked.success =>
       /\ rechecked.data = decoded
       /\ getSchemaValidator(schema, rechecked.data) = rechecked

\* C12: whenever validate(v) succeeds, the typed value it returns is
\* identical to v, and validating that returned value again succeeds with an
\* identical typed value; validate never changes its input.
C12_IdempotentValidation ==
  /\ []ValidatedTwice
  /\ [][Validate => data' = data]_vars
  /\ [][Revalidate => decoded' = decoded]_vars

\* a value with a key the schema does not declare has been accepted
C12_Witness ==
  /\ data # None
  /\ checked # None
  /\ checked.success
  /\ DOMAIN data.obj # Range(ObjectKeys(schema))

\* the standalone codec has packed data
Packed == bag = None /\ data # None /\ packed # None

\* the string pack builds: prefix, separator, the JSON of the wire value
\* without its brackets
PackedText ==
  LET json == JSONStringify(getSchemaEncoder(schema, data))
  IN codec.str \o <<sep>> \o SubSeq(json, 2, Len(json) - 1)

\* C13: pack(d) returns a string exactly when the schema's validator accepts
\* d and the packed string is within the length limit; it throws when the
\* validator rejects d, and for data the validator accepts the encoder
\* never aborts.
C13_PackOutcome ==
  /\ Packed =>
       LET accepted == getSchemaValidator(schema, data).success
       IN /\ ~accepted =>
               packed = ThrownError("Data to pack doesn't conform to schema")
          /\ accepted => ~Raised(getSchemaEncoder(schema, data))
          /\ packed.k = "string" <=>
               (accepted /\ Len(PackedText) <= CALLBACK_DATA_MAX_LENGTH)
          /\ packed.k = "string" => packed.str = PackedText
          /\ packed.k = "throw" =>
               packed.message \in {"Data to pack doesn't conform to schema",
                                   "Callback data exceeds maximum length"}
  /\ checked # None /\ checked.success /\ encoded # None => ~Raised(encoded)

\* pack has refused data the validator accepts, for its length
C13_Witness ==
  /\ Packed
  /\ getSchemaValidator(schema, data).success
  /\ packed = ThrownError("Callback data exceeds maximum length")

\* the number of bytes of a character in UTF-8
Utf8Length(c) == IF c = "U+00E9" THEN 2 ELSE 1

\* the number of bytes of a text in UTF-8
RECURSIVE ByteLength(_)
ByteLength(text) ==
  IF text = <<>> THEN 0 ELSE Utf8Length(Head(text)) + ByteLength(Tail(text))

\* C14: no string returned by pack is longer than 64 bytes, for the
\* standalone codec and for a bag codec; an attempt to pack data whose
\* callback string would be longer results in an error instead of a string.
C14_LengthCeiling ==
  packed # None /\ packed.k = "string" =>
    ByteLength(packed.str) <= CALLBACK_DATA_MAX_LENGTH

\* no string returned by pack has more than 64 UTF-16 code units
PackWithinCodeUnits ==
  packed # None /\ packed.k = "string" =>
    Len(packed.str) <= CALLBACK_DATA_MAX_LENGTH

\* the standalone codec has been handed a callback
Unpacked == bag = None /\ unpackedSafe # None

\* the text after the first separator of a text, empty without a separator
RECURSIVE AfterFirstSep(_)
AfterFirstSep(text) ==
  IF text = <<>> THEN <<>>
  ELSE IF Head(text) = sep THEN Tail(text)
  ELSE AfterFirstSep(Tail(text))

\* the payload of the callback, parsed as the elements of a JSON array
CallbackPayload ==
  JSONParse(<<"[">> \o AfterFirstSep(normalizeCallbackData(callback))
              \o <<"]">>)

CallbackChecked ==
  getSchemaValidator(schema, getSchemaDecoder(schema, CallbackPayload.val))

\* the three outcomes of unpackSafe, and unpack of the same callback
UnpackOutcomes ==
  Unpacked =>
    /\ IF ~CallbackPayload.ok
       THEN unpackedSafe = [success |-> FALSE, reason |-> "MALFORMED_INPUT"]
       ELSE IF ~CallbackChecked.success
       THEN /\ unpackedSafe =
                 [success |-> FALSE, reason |-> "VALIDATION_ERROR",
                  errors |-> CallbackChecked.errors]
            /\ unpackedSafe.errors # <<>>
       ELSE unpackedSafe =
              [success |-> TRUE,
               data |-> getSchemaDecoder(schema, CallbackPayload.val)]
    /\ unpacked # None =>
         IF unpackedSafe.success THEN unpacked = unpackedSafe.data
         ELSE /\ unpacked.k = "throw"
              /\ unpacked.unpackError = unpackedSafe
              /\ unpacked.unpackError.reason = unpackedSafe.reason

\* C15: unpackSafe returns, for every input string and without throwing,
\* exactly one of MALFORMED_INPUT when the payload after the prefix
\* separator is not parseable, VALIDATION_ERROR with a non-empty error list
\* when it parses but the decoded value fails the schema, or success with
\* the decoded data; unpack returns that data when unpackSafe succeeds and
\* otherwise throws a CallbackUnpackError carrying the same reason.
C15_UnpackOutcomes ==
  /\ []UnpackOutcomes
  /\ [][UnpackSafe => unpackedSafe'.success \in BOOLEAN]_vars

\* unpack has thrown for a text received whose payload does not parse
C15_Witness ==
  /\ Unpacked
  /\ textIn # None
  /\ unpackedSafe = [success |-> FALSE, reason |-> "MALFORMED_INPUT"]
  /\ unpacked # None
  /\ unpacked.k = "throw"

\* the prefixes that have a route
RoutedPrefixes(rts) == {rts[r].prefix : r \in DOMAIN rts}

\* every prefix has at most one route
OneRoutePerPrefix ==
  \A i, j \in DOMAIN routes : routes[i].prefix = routes[j].prefix => i = j

\* a call that throws installs no route; a call that installs a route
\* installs one, for a prefix that had none; and the call for a prefix that
\* has a route throws for that prefix
CallOnUsedPrefix ==
  /\ lastError'.k = "throw" => routes' = routes
  /\ lastError'.k # "throw" =>
       /\ Len(routes') = Len(routes) + 1
       /\ SubSeq(routes', 1, Len(routes)) = routes
       /\ routes'[Len(routes')].prefix \notin RoutedPrefixes(routes)
  /\ \A prefix \in RoutedPrefixes(routes) :
       usedPrefixes' = usedPrefixes /\ lastError' = PrefixInUse(prefix) =>
         routes' = routes
  /\ RoutedPrefixes(routes) \subseteq usedPrefixes

\* C16: after any sequence of register and migrate calls on one bag, every
\* prefix has at most one route; a register or migrate call whose prefix
\* was already used by an earlier successful register or migrate throws and
\* installs no route.
C16_PrefixUniqueness ==
  /\ []OneRoutePerPrefix
  /\ [][Register \/ Migrate => CallOnUsedPrefix]_vars

\* a call for a prefix that has a route has thrown, with two routes installed
C16_Witness ==
  /\ Len(routes) = 2
  /\ lastError.k = "throw"
  /\ lastError.message = "Prefix already in use"
  /\ lastError.prefix \in RoutedPrefixes(routes)

\* the migration installed for the prefix of the update
UpdateMigration ==
  routes[CHOOSE r \in DOMAIN routes :
           routes[r].kind = "migrate" /\ routes[r].prefix = UpdatePrefix]

\* the payload of the update under the old schema of the migration
UpdateCheckedOld ==
  getSchemaValidator(UpdateMigration.schema,
                     getSchemaDecoder(UpdateMigration.schema, UpdatePayload.val))

\* C17: after bag.migrate({old: {prefix, schema}, new: codec, adapter}), an
\* update that carries the old prefix and a payload valid under the old
\* schema runs the handlers of the new codec exactly once, with
\* ctx.matchedCallback equal to adapter applied to the context holding the
\* old decoded data; an old payload that fails the old schema runs
\* onValidationError and not the new handlers, and an unparseable one runs
\* neither.
C17_Migration ==
  UpdateOfBag /\ Migrated(UpdatePrefix) =>
    LET new == routes[UpdateMigration.target].prefix
    IN IF ~UpdatePayload.ok
       THEN ValidationErrorRuns = 0 /\ HandlerRuns(new) = 0
       ELSE IF UpdateCheckedOld.success
       THEN /\ HandlerRuns(new) = 1
            /\ HandlerEvent(new, Adapter(UpdateMigration.adapter,
                                         UpdateCheckedOld.data))
                 \in Range(events)
            /\ ValidationErrorRuns = 0
       ELSE ValidationErrorRuns = 1 /\ HandlerRuns(new) = 0

\* the migrations of a bag that has a commonPrefix and no prefix with a
\* metacharacter
MigrationWithCommonPrefix ==
  pc = "dispatched" /\ commonPrefixSep(bag) # <<>> /\ ~MetaPrefix => C17_Migration

\* the two kinds of schema change the README calls not breaking
Changes == {"nullable", "enum"}

\* an enum option added at the end of the array of options
NewOption == Str(<<"z">>)

\* the items an item can become by changes of one kind: any of its nodes
\* made nullable, or any of its enum lists given a new option at the end
RECURSIVE Relaxations(_, _)
RECURSIVE RelaxedChildren(_, _)

RelaxedChildren(ps, change) ==
  IF ps = <<>> THEN {<<>>}
  ELSE {<<<<Head(ps)[1], it>>>> \o rest :
          it \in Relaxations(Head(ps)[2], change),
          rest \in RelaxedChildren(Tail(ps), change)}

Relaxations(item, change) ==
  LET spec == normalizeSchemaItem(item)
      nullables == IF change = "nullable" THEN {spec.nullable, TRUE}
                   ELSE {spec.nullable}
  IN CASE spec.type = "array" ->
            {ArrayOf(n, it) : n \in nullables,
                              it \in Relaxations(spec.items, change)}
       [] spec.type = "object" ->
            {ObjectOf(n, ps) : n \in nullables,
                               ps \in RelaxedChildren(spec.properties, change)}
       [] spec.type = "union" ->
            {UnionOf(n, os) : n \in nullables,
                              os \in RelaxedChildren(spec.options, change)}
       [] spec.type = "enum" ->
            {EnumOf(n, vs) : n \in nullables,
                             vs \in IF change = "enum"
                                    THEN {spec.enum, Append(spec.enum, NewOption)}
                                    ELSE {spec.enum}}
       [] OTHER -> {Prim(spec.type, n) : n \in nullables}

\* the schemas a schema can become by changes of one kind
SchemaRelaxations(sch) ==
  UNION {RelaxedChildren(sch, change) : change \in Changes}

\* the encoder has produced a wire value for data the validator accepted
WireProduced == encoded # None /\ encoded # Thrown

\* decoding the wire value produced under schema gives, under other, the
\* same value, and the validator of other accepts it
Compatible(other) ==
  /\ getSchemaDecoder(other, encoded) = getSchemaDecoder(schema, encoded)
  /\ getSchemaValidator(other, getSchemaDecoder(schema, encoded)).success

\* C18: for every wire value produced under a schema S, decoding it under a
\* schema S' that differs from S only by making items nullable, or only by
\* appending enum values at the end of an enum list, yields the same value
\* as decoding under S, and that value is accepted by the validator of S'.
C18_NonBreakingChanges ==
  WireProduced => \A other \in SchemaRelaxations(schema) : Compatible(other)

\* the same for the wire values of data that holds no negative bigint
NonBreakingOfNonNegative ==
  WireProduced /\ ~HasNegativeBigint(data)
    => \A other \in SchemaRelaxations(schema) : Compatible(other)

\* a schema with a new enum option in the middle decodes another value
BreakingInsertion ==
  /\ WireProduced
  /\ schema = <<<<kR, EnumXY(FALSE)>>>>
  /\ data = Obj(kR :> Str(<<"y">>))
  /\ getSchemaDecoder(<<<<kR, EnumOf(FALSE, <<Str(<<"x">>), NewOption,
                                              Str(<<"y">>)>>)>>>>, encoded)
       = Obj(kR :> NewOption)

\* the bag has no route for the update, or the route's codec rejects the
\* payload: it does not parse, or it fails the schema of the route
UpdateRejected ==
  \/ ~Registered(UpdatePrefix) /\ ~Migrated(UpdatePrefix)
  \/ ~UpdatePayload.ok
  \/ Registered(UpdatePrefix) /\ ~UpdateChecked.success
  \/ Migrated(UpdatePrefix) /\ ~UpdateCheckedOld.success

NoHandlerRuns ==
  \A i \in DOMAIN events : "matchedCallback" \notin DOMAIN events[i]

\* C19: in a bag created without an onValidationError option, an update
\* whose payload fails validation skips the registered handlers and control
\* passes on to the middleware after the bag (next is called); the same
\* fall-through happens for an unparseable payload and for an unregistered
\* prefix.
C19_FallThrough ==
  UpdateOfBag /\ ~bag.custom /\ UpdateRejected
    => NoHandlerRuns /\ fellThrough

\* the fall-through in a bag that has a commonPrefix and no prefix with a
\* metacharacter
FallThroughWithCommonPrefix ==
  pc = "dispatched" /\ commonPrefixSep(bag) # <<>> /\ ~MetaPrefix => C19_FallThrough

\* the fall-through of the payloads that fail validation, in a bag without
\* a prefix with a metacharacter
FallThroughOfInvalid ==
  UpdateOfBag /\ ~MetaPrefix /\ ~bag.custom /\ UpdatePayload.ok
              /\ UpdateRejected
    => NoHandlerRuns /\ fellThrough

\* a prefix that is empty or contains the separator
InvalidPrefix(prefix) ==
  prefix = <<>> \/ \E i \in DOMAIN prefix : prefix[i] = sep

\* createCallbackData and createCallbacksBag throw for the invalid prefixes,
\* and for no other
ConstructorsThrow ==
  /\ \A prefix \in Prefixes \cup BagPrefixes :
       InvalidPrefix(prefix) <=> createCallbackData(prefix).k = "throw"
  /\ \A commonPrefix \in CommonPrefixes \ {Undefined} :
       InvalidPrefix(commonPrefix.str)
         <=> createCallbacksBag(commonPrefix).k = "throw"

\* a bag exists only for a valid commonPrefix; the failed call left the
\* error and nothing else
BagPrefixValid ==
  /\ pc = "failed" => bag.k = "throw" /\ routes = <<>> /\ usedPrefixes = {}
  /\ pc \notin {"start", "failed"} =>
       \/ bag.commonPrefix = Undefined
       \/ ~InvalidPrefix(bag.commonPrefix.str)

\* in every state of a bag, register and migrate throw for an invalid
\* prefix and install no route
CallOnInvalidPrefix ==
  pc = "bag" =>
    \A prefix \in BagPrefixes \cup Prefixes :
      InvalidPrefix(prefix) =>
        /\ register(bag, usedPrefixes, routes, prefix, schema, TRUE).error.k
             = "throw"
        /\ register(bag, usedPrefixes, routes, prefix, schema, TRUE).routes
             = routes
        /\ \A old \in BagSchemas, adapter \in Adapters :
             /\ migrate(bag, usedPrefixes, routes, prefix, old, 1,
                        adapter).error.k = "throw"
             /\ migrate(bag, usedPrefixes, routes, prefix, old, 1,
                        adapter).routes = routes

\* C20: createCallbackData throws for an empty prefix and for a prefix
\* containing the separator '.', createCallbacksBag throws for a commonPrefix
\* that is empty or contains '.', and a bag's register/migrate throw for
\* such a prefix; no codec and no route exists afterwards for an invalid
\* prefix.
C20_PrefixValidity ==
  /\ ConstructorsThrow
  /\ BagPrefixValid
  /\ CallOnInvalidPrefix
  /\ \A r \in DOMAIN routes : ~InvalidPrefix(routes[r].prefix)

\* register or migrate has thrown for a prefix with a separator, after a
\* route was installed, and the routes are the one route
C20_Witness ==
  /\ pc = "bag"
  /\ lastError = ThrownError("Prefix may not contain .")
  /\ <<"a", ".", "b">> \in usedPrefixes
  /\ Len(routes) = 1

\* the wire value [w] has been decoded under a schema {r: boolean}
BooleanWire ==
  /\ wireIn # None
  /\ pc \in {"decoded", "done"}
  /\ Len(schema) = 1
  /\ normalizeSchemaItem(schema[1][2]).type = "boolean"
  /\ wireIn.k = "array"
  /\ Len(wireIn.arr) = 1

\* 0 -> false, 1 -> true, 2 -> null, anything else is Poison
StrictBoolean(w) ==
  CASE w = Num(0) -> Bool(FALSE)
    [] w = Num(1) -> Bool(TRUE)
    [] w = Num(2) -> Null
    [] OTHER -> poison

\* C21: boolean decode is strict: the wire values 0, 1 and 2 decode to
\* false, true and null, and every other wire value (negative integers such
\* as -1, -2, -3, integers above 2, non-integer numbers, strings, null,
\* sequences) decodes to Poison.
C21_StrictBoolean ==
  BooleanWire => decoded.obj[schema[1][1]] = StrictBoolean(wireIn.arr[1])

\* the decode is strict on the non-negative integers and on what is not a
\* number
BooleanOfNaturals ==
  BooleanWire /\ (wireIn.arr[1].k = "number" =>
                    IsInteger(wireIn.arr[1]) /\ wireIn.arr[1].num >= 0)
    => decoded.obj[schema[1][1]] = StrictBoolean(wireIn.arr[1])

\* a wire value received has been decoded
WireDecoded == wireIn # None /\ pc \in {"decoded", "done"}

\* at every object node of item met while decoding w to d: wire null gives
\* null, a wire value that is no sequence or has another length than the
\* declared properties gives Poison for the node, and a sequence of the
\* right length gives an object
RECURSIVE ExactArity(_, _, _)
ExactArity(item, w, d) ==
  LET spec == normalizeSchemaItem(item)
  IN CASE spec.type = "object" ->
            LET keys == SortKeys(ObjectKeys(spec.properties))
            IN IF w = Null THEN d = Null
               ELSE IF ~IsArray(w) \/ Len(w.arr) # Len(keys) THEN d = poison
               ELSE /\ d.k = "object"
                    /\ \A i \in DOMAIN keys :
                         ExactArity(Lookup(spec.properties, keys[i]),
                                    w.arr[i], d.obj[keys[i]])
       [] spec.type = "array" ->
            IsArray(w) /\ d.k = "array" =>
              \A i \in DOMAIN w.arr : ExactArity(spec.items, w.arr[i], d.arr[i])
       [] OTHER -> TRUE

DecoderTestDone == WireDecoded /\ schema = DecoderTestSchema

Valued(v) == Obj(kValue :> v)

\* C23: as the decoder's own test asserts, for an object declared with
\* properties childC (boolean), childB (string), childA (number) in that
\* order, the wire value [[0],["test"],[1]] decodes to childA.value = 1,
\* childB.value = "test", childC.value = false, and an empty wire sequence
\* for that object decodes to an object whose three properties are all null.
C23_DecoderTest ==
  DecoderTestDone =>
    /\ wireIn = DecoderTestWire =>
         decoded = Obj(kRoot :>
                     Obj(kChildA :> Valued(Num(1))
                         @@ kChildB :> Valued(Str(<<"t", "e", "s", "t">>))
                         @@ kChildC :> Valued(Bool(FALSE))))
    /\ wireIn = Arr(<<Arr(<<>>)>>) =>
         decoded = Obj(kRoot :> Obj(kChildA :> Null @@ kChildB :> Null
                                    @@ kChildC :> Null))

\* what the decoder gives for the wire values of its test: positions go to
\* the sorted keys, and the empty sequence is Poison
DecoderTestSorted ==
  DecoderTestDone =>
    /\ wireIn = DecoderTestWire =>
         decoded = Obj(kRoot :>
                     Obj(kChildA :> Valued(Num(0))
                         @@ kChildB :> Valued(Str(<<"t", "e", "s", "t">>))
                         @@ kChildC :> Valued(Bool(TRUE))))
    /\ wireIn = Arr(<<Arr(<<>>)>>) => decoded = Obj(kRoot :> poison)
    /\ wireIn = Arr(<<Null>>) => decoded = Obj(kRoot :> Null)

\* the errors of a result that lie below an edge, with the edge taken off
ErrorsBelow(res, edge) ==
  LET below == SelectSeq(ErrorsOf(res),
                         LAMBDA e : e.path # <<>> /\ e.path[1] = edge)
  IN [i \in DOMAIN below |-> [below[i] EXCEPT !.path = Tail(@)]]

\* res is the result for an object payload under props: every declared
\* property that is present and does not conform has its own errors in res
PropertiesIndependent(props, payload, res) ==
  \A key \in Range(ObjectKeys(props)) :
    key \in DOMAIN payload.obj =>
      LET child == getValidator(Lookup(props, key), payload.obj[key])
      IN ~child.success =>
           ErrorsBelow(res, KeyEdge(key)) = child.errors

\* res is the result for an array payload of items: every element that does
\* not conform has its own errors in res, and the errors come in index order
ElementsIndependent(item, payload, res) ==
  /\ \A i \in DOMAIN payload.arr :
       LET child == getValidator(item, payload.arr[i])
       IN ~child.success =>
            ErrorsBelow(res, IdxEdge(i - 1)) = child.errors
  /\ \A i, j \in DOMAIN ErrorsOf(res) :
       i < j => res.errors[i].path[1].idx <= res.errors[j].path[1].idx

\* data is an object and has been validated
ObjectValidated ==
  data # None /\ checked # None /\ data.k = "object"

\* the property r of data is an array and the schema declares an array
ArrayValidated ==
  /\ ObjectValidated
  /\ RootIs("array")
  /\ kR \in DOMAIN data.obj
  /\ data.obj[kR].k = "array"

\* C24: validation errors are never truncated at the first failure: for an
\* object value, every declared property that is present is validated
\* independently and each nonconforming position contributes its own error
\* (also when another declared key of the same object is missing); for an
\* array every nonconforming element contributes its own error, in index
\* order.
C24_NoTruncation ==
  /\ ObjectValidated => PropertiesIndependent(schema, data, checked)
  /\ ArrayValidated =>
       ElementsIndependent(normalizeSchemaItem(RootItem).items, data.obj[kR],
                           getValidator(RootItem, data.obj[kR]))

\* the same for the objects that hold every declared key
NoTruncationWithAllKeys ==
  /\ ObjectValidated /\ ~LacksKey =>
       PropertiesIndependent(schema, data, checked)
  /\ ArrayValidated =>
       ElementsIndependent(normalizeSchemaItem(RootItem).items, data.obj[kR],
                           getValidator(RootItem, data.obj[kR]))

\* an array with two elements that do not conform has been validated
TwoElementErrors ==
  /\ ArrayValidated
  /\ Len(ErrorsOf(checked)) = 2
  /\ checked.errors[1].path = <<KeyEdge(kR), IdxEdge(0)>>
  /\ checked.errors[2].path = <<KeyEdge(kR), IdxEdge(1)>>

\* an object with two properties that do not conform has been validated
TwoPropertyErrors ==
  /\ ObjectValidated
  /\ Len(ErrorsOf(checked)) >= 2
  /\ checked.errors[1].path[1] # checked.errors[2].path[1]

UnexpectedNull(path) ==
  [Error(<<"Unexpected null on non-nullable field">>, Null)
     EXCEPT !.path = path]

\* the errors of a result at a path or below it
ErrorsUnder(res, path) ==
  SelectSeq(ErrorsOf(res), LAMBDA e : StartsWith(e.path, path))

\* at every node that the validator reaches in payload and that holds null:
\* one error at the node's path and none below when the node is not
\* nullable, no error when it is.  The walk goes through the elements of
\* arrays and the properties of objects that hold every declared key.
RECURSIVE NullsChecked(_, _, _, _)
NullsChecked(item, payload, path, res) ==
  LET spec == normalizeSchemaItem(item)
  IN IF payload = Null
     THEN IF spec.nullable THEN ErrorsUnder(res, path) = <<>>
          ELSE ErrorsUnder(res, path) = <<UnexpectedNull(path)>>
     ELSE CASE spec.type = "array" /\ IsArray(payload) ->
                 \A i \in DOMAIN payload.arr :
                   NullsChecked(spec.items, payload.arr[i],
                                path \o <<IdxEdge(i - 1)>>, res)
            [] /\ spec.type = "object"
               /\ payload.k = "object"
               /\ \A key \in Range(ObjectKeys(spec.properties)) :
                    key \in DOMAIN payload.obj ->
                 \A key \in Range(ObjectKeys(spec.properties)) :
                   NullsChecked(Lookup(spec.properties, key), payload.obj[key],
                                path \o <<KeyEdge(key)>>, res)
            [] OTHER -> TRUE

NullOn(type) ==
  /\ RootIs(type)
  /\ ~RootItem.nullable
  /\ data = Obj(kR :> Null)
  /\ checked = Fail(<<UnexpectedNull(<<KeyEdge(kR)>>)>>)

NullOnUnion == NullOn("union")
NullOnEnum == NullOn("enum")
NullOnArray == NullOn("array")
NullInArray ==
  /\ RootIs("array")
  /\ data = Obj(kR :> Arr(<<Num(1), Null>>))
  /\ checked = Fail(<<UnexpectedNull(<<KeyEdge(kR), IdxEdge(1)>>)>>)
NullOnNullable ==
  /\ RootIs("union")
  /\ RootItem.nullable
  /\ data = Obj(kR :> Null)
  /\ checked # None
  /\ checked.success

\* the schema is {r: array of items}
ArrayItems == RootItem.items

\* data holds an array at r, was accepted and has been encoded
ArrayEncoded ==
  /\ RootIs("array")
  /\ data # None
  /\ encoded # None
  /\ encoded # Thrown
  /\ data.obj[kR] # Null

\* the wire value [[w1, ..., wn]] has been decoded and validated
ArrayDecoded ==
  /\ RootIs("array")
  /\ DecodedOne
  /\ IsArray(wireIn.arr[1])

WireElements == wireIn.arr[1].arr

\* an element that is malformed: the wire value cannot be interpreted, or
\* what it decodes to does not conform to the items
Malformed(w) ==
  \/ ~Interpretable(ArrayItems, w)
  \/ ~getValidator(ArrayItems, getDecoder(ArrayItems, w)).success

\* C26: encode of a non-null array yields a sequence of the same length
\* whose i-th entry is the child encoding of the i-th element, and decode
\* maps every wire element through the child decoder so that a malformed
\* element becomes Poison only at its own position; validating the decoded
\* array then reports errors only at the indices of the malformed elements.
C26_ArrayCodec ==
  /\ ArrayEncoded =>
       /\ IsArray(encoded.arr[1])
       /\ Len(encoded.arr[1].arr) = Len(data.obj[kR].arr)
       /\ \A i \in DOMAIN data.obj[kR].arr :
            encoded.arr[1].arr[i] = getEncoder(ArrayItems, data.obj[kR].arr[i])
  /\ ArrayDecoded =>
       /\ decoded.obj[kR].k = "array"
       /\ Len(decoded.obj[kR].arr) = Len(WireElements)
       /\ \A i \in DOMAIN WireElements :
            /\ decoded.obj[kR].arr[i] = getDecoder(ArrayItems, WireElements[i])
            /\ ~Interpretable(ArrayItems, WireElements[i]) =>
                 ContainsPoison(decoded.obj[kR].arr[i])
            /\ ~Malformed(WireElements[i]) =>
                 ErrorsUnder(rechecked, <<KeyEdge(kR), IdxEdge(i - 1)>>) = <<>>
       /\ \A e \in Range(ErrorsOf(rechecked)) :
            /\ Len(e.path) >= 2
            /\ e.path[1] = KeyEdge(kR)
            /\ \E i \in DOMAIN WireElements :
                 e.path[2] = IdxEdge(i - 1) /\ Malformed(WireElements[i])

\* the same for the arrays whose wire elements are not negative numbers
ArrayCodecOfNaturals ==
  (ArrayDecoded =>
     \A i \in DOMAIN WireElements :
       WireElements[i].k = "number" => WireElements[i].num >= 0)
    => C26_ArrayCodec

\* a malformed element between two good ones is Poison at its own position
\* and has the one error
PoisonAtOwnPosition ==
  /\ ArrayDecoded
  /\ ArrayItems = Short("bigint")
  /\ WireElements = <<Str(<<"1">>), Str(<<"x">>)>>
  /\ decoded = Obj(kR :> Arr(<<Big(1), poison>>))
  /\ Len(rechecked.errors) = 1
  /\ rechecked.errors[1].path = <<KeyEdge(kR), IdxEdge(1)>>

\* texts to put before the first separator: the prefixes of codecs, other
\* words, the empty text
Heads == {<<>>, <<"p">>, <<"q">>, <<"1">>, <<"b", "a", "r">>}

CallbackText == normalizeCallbackData(callback)

\* the callback with another text before its first separator
WithHead(head) == head \o <<sep>> \o AfterFirstSep(CallbackText)

\* C27: the result of unpackSafe/unpack of a standalone codec depends only
\* on the text after the first separator of the input: two inputs that
\* differ only in the text before the first '.' (including a prefix
\* different from the codec's own prefix) give the same result, i.e. the
\* codec does not check that the callback carries its prefix.
C27_PrefixUnchecked ==
  Unpacked /\ (\E i \in DOMAIN CallbackText : CallbackText[i] = sep) =>
    \A head \in Heads :
      /\ unpackSafe(schema, WithHead(head)) = unpackedSafe
      /\ unpacked # None => unpack(schema, WithHead(head)) = unpacked

\* the codec of prefix p has unpacked the data of a callback that carries
\* the prefix q
C27_Witness ==
  /\ pc = "unpacked"
  /\ codec = Str(<<"p">>)
  /\ StartsWith(CallbackText, <<"q", sep>>)
  /\ unpackedSafe.success
  /\ unpacked = unpackedSafe.data

\* the call of register or migrate has thrown
CallThrew == (Register \/ Migrate) /\ lastError'.k = "throw"

\* C28: a register or migrate call that throws (duplicate prefix, empty
\* prefix, prefix containing '.') leaves the bag unchanged: the set of used
\* prefixes and the installed routes are the same as before the call, so
\* repeating the call raises the same error and the bag otherwise behaves
\* as if the failed call had never been made.
C28_FailedCallFrame ==
  [][CallThrew => usedPrefixes' = usedPrefixes /\ routes' = routes]_vars

\* a call that throws installs no route, and one that throws for a
\* duplicate prefix leaves the used prefixes as they were
FailedCallKeepsRoutes ==
  [][CallThrew =>
       /\ routes' = routes
       /\ "prefix" \in DOMAIN lastError' => usedPrefixes' = usedPrefixes]_vars

\* the call for the prefix a.b, repeated, raises another error than the
\* first time
RepeatedCallDiffers ==
  /\ pc = "bag"
  /\ usedPrefixes = {<<"a", ".", "b">>}
  /\ routes = <<>>
  /\ lastError = PrefixInUse(<<"a", ".", "b">>)

\* the registered prefixes whose handlers ran for the update
RunningPrefixes ==
  {events[i].handler :
     i \in {j \in DOMAIN events : "matchedCallback" \in DOMAIN events[j]}}

\* the registered prefix the update is for: the segment after the common
\* prefix, or the prefix of the new codec when the segment was migrated
RoutedTo ==
  IF Migrated(UpdatePrefix) THEN routes[UpdateMigration.target].prefix
  ELSE UpdatePrefix

\* C29: after any sequence of successful register/migrate calls, one update
\* runs the handlers of at most one registered prefix and onValidationError
\* at most once, and the prefix whose handlers run is exactly the segment
\* between the common prefix and the next separator of the callback data;
\* this holds also when one registered prefix is a leading substring of
\* another ("ba" and "bar") and when a prefix contains regular-expression
\* metacharacters.
C29_RouteIsolation ==
  pc = "dispatched" =>
    /\ Cardinality(RunningPrefixes) <= 1
    /\ ValidationErrorRuns <= 1
    /\ IF UpdateOfBag THEN RunningPrefixes \subseteq {RoutedTo}
       ELSE RunningPrefixes = {}

\* the isolation of the routes whose prefixes have no metacharacter
IsolationOfPlainPrefixes ==
  pc = "dispatched" /\ ~MetaPrefix => C29_RouteIsolation

\* ba and bar are registered and an update for ba has run the handler of ba
LeadingSubstring ==
  /\ pc = "dispatched"
  /\ Registered(<<"b", "a">>)
  /\ Registered(<<"b", "a", "r">>)
  /\ UpdateOfBag
  /\ UpdatePrefix = <<"b", "a">>
  /\ RunningPrefixes = {<<"b", "a">>}

====
